---- MODULE Spec2Model ----
(***************************************************************************)
(* Scoring engine of bilibili_analyzer: the stability scores of            *)
(* BusinessLayer (core_services.py) / StabilityAnalyzer (src/core/         *)
(* analyzer.py), the interaction metrics of InteractionAnalyzer and the    *)
(* PerformanceMonitor every scoring call reports to; the infrastructure     *)
(* wrappers (InfrastructureLayer, BilibiliClient), the orchestration       *)
(* commands of BilibiliVideoAnalyzer and the stand-alone copy of the       *)
(* stability scoring in run.py.                                            *)
(*                                                                         *)
(* Number representation.  Python floats are modelled as follows:          *)
(*   - a quotient of integers (a rate, a mean) is an exact rational        *)
(*     [num, den];                                                         *)
(*   - a standard deviation is the exact surd sqrt(rad)/den;               *)
(*   - a stability score is a fixed-point integer in units of 1/Scale,     *)
(*     obtained by truncating the exact quotient;                          *)
(*   - a value rounded with round(x, 3) is an integer number of            *)
(*     thousandths.                                                        *)
(* Timestamps are multiples of TimeUnit seconds and are stored divided by  *)
(* TimeUnit (the score is invariant under this scaling as long as the      *)
(* one-day floor is scaled with them).                                     *)
(***************************************************************************)
EXTENDS Integers, Sequences, FiniteSets, TLC

VARIABLES
    package,               \* which copy of the analyzers the caller built
    timestamps,            \* argument: list of publish timestamps (ticks of TimeUnit s)
    videos_data,           \* argument: list of video records
    current_operation,     \* PerformanceMonitor.current_operation ("None" or a name)
    operation_start_time,  \* PerformanceMonitor.operation_start_time ("None" or "set")
    performance_data,      \* PerformanceMonitor.performance_data
    last_call,             \* name of the scoring call that returned last
    ret_score,             \* float returned by calculate_*_stability (units of 1/Scale)
    ret_result,            \* dict returned by evaluate_up_stability
    ret_metrics,           \* value returned by analyze_interaction_level
    ret_advice,            \* tier of the advice generate_stability_report printed
    disk_file,             \* the benchmark file InteractionAnalyzer was built on
    benchmarks,            \* InteractionAnalyzer.benchmarks
    call_args,             \* arguments of the last call of an evaluation helper
    ret_eval,              \* dict returned by _evaluate_metric / _evaluate_danmaku
    ret_suggestions,       \* list returned by _generate_suggestions
    ret_report,            \* values printed by generate_interaction_report
    raised,                \* exception that left the last call ("None" if it returned)
    starts_since_clear,    \* history: start_operation calls since the last clear_data
    requests,              \* the network_request coroutines the caller has created
    ret_value,             \* value returned by the last infrastructure call
    api,                   \* what the Bilibili API answers for the creator
    ret_command            \* outcome of the last orchestration command

vars == <<package, timestamps, videos_data, current_operation, operation_start_time,
          performance_data, last_call, ret_score, ret_result, ret_metrics,
          ret_advice, disk_file, benchmarks, call_args, ret_eval,
          ret_suggestions, ret_report, raised, starts_since_clear, requests,
          ret_value, api, ret_command>>

----------------------------------------------------------------------------
\* Bounds of the model

MaxTimestamps == 3
MaxVideos == 3
MaxRecords == 2

\* seconds per timestamp tick
TimeUnit == 10 * 10

\* fixed-point resolution of a score: 1/Scale
Scale == 10 * 1000

\* largest radicand handed to ISqrt
SqrtCap == 4 * 10000 * 10000

\* publish times in ticks: 0, one day and 100 s, and two days later still
TimestampVals == {0, 865, 2595}

\* a video nobody watched, the example video of the documentation, and a
\* watched video without any like, coin or favorite
VideoVals ==
    { [view |-> 0,    like |-> 5,  coin |-> 0,  favorite |-> 0, danmaku |-> 3, reply |-> 0],
      [view |-> 1000, like |-> 50, coin |-> 10, favorite |-> 5, danmaku |-> 0, reply |-> 0],
      [view |-> 100,  like |-> 0,  coin |-> 0,  favorite |-> 0, danmaku |-> 5, reply |-> 2] }

\* the richer argument values of the calls that score a single list
ScoreTimestampVals == TimestampVals \cup {864, 1730}

ScoreVideoVals ==
    VideoVals \cup
    { [view |-> 1000, like |-> 100, coin |-> 20, favorite |-> 30, danmaku |-> 10, reply |-> 5],
      [view |-> 100,  like |-> 7,   coin |-> 1,  favorite |-> 2,  danmaku |-> 1,  reply |-> 1] }

SeqsUpTo(S, n) == UNION { [1..k -> S] : k \in 0..n }

----------------------------------------------------------------------------
\* Arithmetic helpers

RECURSIVE Sum(_)
Sum(xs) == IF xs = <<>> THEN 0 ELSE Head(xs) + Sum(Tail(xs))

RECURSIVE Gcd(_, _)
Gcd(a, b) == IF b = 0 THEN a ELSE Gcd(b, a % b)

Lcm(a, b) == (a \div Gcd(a, b)) * b

RECURSIVE LcmAll(_)
LcmAll(ds) == IF ds = <<>> THEN 1 ELSE Lcm(Head(ds), LcmAll(Tail(ds)))

\* floor of the square root of n, by bisection on lo..hi (lo*lo <= n < (hi+1)^2)
RECURSIVE ISqrtIter(_, _, _)
ISqrtIter(n, lo, hi) ==
    IF lo >= hi THEN lo
    ELSE LET mid == (lo + hi + 1) \div 2
         IN  IF mid * mid <= n THEN ISqrtIter(n, mid, hi)
                               ELSE ISqrtIter(n, lo, mid - 1)

ISqrt(n) == ISqrtIter(n, 0, 46340)

Rat(n, d) == [num |-> n, den |-> d]

RatGE(a, b) == a.num * b.den >= b.num * a.den

RatEq(a, b) == a.num * b.den = b.num * a.den

Min(a, b) == IF a <= b THEN a ELSE b

\* the float 1.0, 0.5 and 0 as scores
One == Scale
Half == Scale \div 2

\* 24 * 3600 seconds, in timestamp ticks
Day == (24 * 3600) \div TimeUnit

----------------------------------------------------------------------------
\* Python / numpy primitives

\* sorted(xs), ascending
RECURSIVE Insert(_, _)
Insert(x, xs) ==
    IF xs = <<>> THEN <<x>>
    ELSE IF x <= Head(xs) THEN <<x>> \o xs
    ELSE <<Head(xs)>> \o Insert(x, Tail(xs))

\* mutant of Sorted: the list is left in the order it came
Sorted_asgiven(xs) == xs

RECURSIVE Sorted(_)
Sorted(xs) == IF xs = <<>> THEN <<>> ELSE Insert(Head(xs), Sorted(Tail(xs)))

\* np.diff(xs): consecutive gaps, as rationals with denominator 1
NpDiff(xs) == [i \in 1..(Len(xs) - 1) |-> Rat(xs[i + 1] - xs[i], 1)]

\* the elements of a list of rationals over their common denominator
CommonDen(xs) == LcmAll([i \in 1..Len(xs) |-> xs[i].den])

OverCommonDen(xs) ==
    LET L == CommonDen(xs)
    IN  [i \in 1..Len(xs) |-> xs[i].num * (L \div xs[i].den)]

\* np.mean(xs), exact
NpMean(xs) == Rat(Sum(OverCommonDen(xs)), Len(xs) * CommonDen(xs))

\* np.std(xs), the population standard deviation, exact:
\* sqrt(mean(|x - mean|^2)) = sqrt(n * sum(x^2) - sum(x)^2) / n
NpStd(xs) ==
    LET X == OverCommonDen(xs)
        n == Len(xs)
        s == Sum(X)
    IN  [rad |-> n * Sum([i \in 1..n |-> X[i] * X[i]]) - s * s,
         den |-> n * CommonDen(xs)]

\* max(a, b) of two rationals, Python's max: the first one on a tie
RatMax(a, b) == IF RatGE(a, b) THEN a ELSE b

\* the float quotient surd / rational, as a score (truncated to 1/Scale)
SurdOverRat(sd, r) ==
    IF sd.rad = 0 THEN 0
    ELSE LET g == Gcd(r.den, sd.den)
             a == r.den \div g
             b == sd.den \div g
             K == ISqrt(SqrtCap \div sd.rad)
             root == ISqrt(sd.rad * K * K)
         IN  (root * Scale * a) \div (K * b * r.num)

\* mutant of OneOverOnePlus: the score as 1 - x
OneOverOnePlus_linear(x) == Scale - x

\* the float quotient 1 / (1 + x) of a score x
OneOverOnePlus(x) == (Scale * Scale) \div (Scale + x)

\* round(x, 3) of a value x in units of 1/scale: thousandths, ties to even
Round3(x, scale) ==
    LET m == scale \div 1000
        q == x \div m
        r == x % m
    IN  IF 2 * r > m \/ (2 * r = m /\ q % 2 = 1) THEN q + 1 ELSE q

----------------------------------------------------------------------------
\* PerformanceMonitor (performance.py), as a value threaded through a call

\* starts is a history field: the number of start_operation calls since the
\* last clear_data
Monitor(cur, start, data) ==
    [current_operation |-> cur, operation_start_time |-> start, performance_data |-> data,
     starts |-> 0]

start_operation(m, operation_name) ==
    [m EXCEPT !.current_operation = operation_name,
              !.operation_start_time = "set",
              !.starts = @ + 1]

end_operation(m, success) ==
    IF m.current_operation # "None" /\ m.operation_start_time # "None"
    THEN [m EXCEPT !.current_operation = "None",
                   !.operation_start_time = "None",
                   !.performance_data =
                       Append(@, [operation |-> m.current_operation,
                                  success |-> success])]
    ELSE m

clear_data(m) == [m EXCEPT !.performance_data = <<>>, !.starts = 0]

----------------------------------------------------------------------------
\* BusinessLayer (core_services.py)

\* mutant of calculate_time_stability: the score is read off the monitor
\* when it holds records
calculate_time_stability_monitored(m0, ts) ==
    LET m1 == start_operation(m0, "calculate_time_stability")
    IN  IF Len(ts) < 2 \/ m0.performance_data # <<>>
        THEN [mon |-> end_operation(m1, TRUE), ret |-> Half]
        ELSE LET intervals == NpDiff(Sorted(ts))
                 std_seconds == NpStd(intervals)
                 avg_interval == NpMean(intervals)
                 baseline_cycle == RatMax(avg_interval, Rat(Day, 1))
                 relative_volatility == SurdOverRat(std_seconds, baseline_cycle)
                 stability_score == OneOverOnePlus(relative_volatility)
             IN  [mon |-> end_operation(m1, TRUE), ret |-> Min(stability_score, One)]

\* mutant of calculate_time_stability: the neutral score only for an empty list
calculate_time_stability_lt1(m0, ts) ==
    LET m1 == start_operation(m0, "calculate_time_stability")
    IN  IF Len(ts) < 1
        THEN [mon |-> end_operation(m1, TRUE), ret |-> Half]
        ELSE LET intervals == NpDiff(Sorted(ts))
                 std_seconds == NpStd(intervals)
                 avg_interval == NpMean(intervals)
                 baseline_cycle == RatMax(avg_interval, Rat(Day, 1))
                 relative_volatility == SurdOverRat(std_seconds, baseline_cycle)
                 stability_score == OneOverOnePlus(relative_volatility)
             IN  [mon |-> end_operation(m1, TRUE), ret |-> Min(stability_score, One)]

\* mutant of calculate_time_stability: a zero mean interval takes the
\* sentinel volatility 1.0, as a zero mean rate does in the quality score
calculate_time_stability_sentinel(m0, ts) ==
    LET m1 == start_operation(m0, "calculate_time_stability")
    IN  IF Len(ts) < 2
        THEN [mon |-> end_operation(m1, TRUE), ret |-> Half]
        ELSE LET intervals == NpDiff(Sorted(ts))
                 std_seconds == NpStd(intervals)
                 avg_interval == NpMean(intervals)
                 baseline_cycle == RatMax(avg_interval, Rat(Day, 1))
                 relative_volatility == IF avg_interval.num > 0
                                        THEN SurdOverRat(std_seconds, baseline_cycle)
                                        ELSE One
                 stability_score == OneOverOnePlus(relative_volatility)
             IN  [mon |-> end_operation(m1, TRUE), ret |-> Min(stability_score, One)]

calculate_time_stability(m0, ts) ==
    LET m1 == start_operation(m0, "calculate_time_stability")
    IN  IF Len(ts) < 2
        THEN [mon |-> end_operation(m1, TRUE), ret |-> Half]
        ELSE LET intervals == NpDiff(Sorted(ts))
                 std_seconds == NpStd(intervals)
                 avg_interval == NpMean(intervals)
                 baseline_cycle == RatMax(avg_interval, Rat(Day, 1))
                 relative_volatility == SurdOverRat(std_seconds, baseline_cycle)
                 stability_score == OneOverOnePlus(relative_volatility)
             IN  [mon |-> end_operation(m1, TRUE), ret |-> Min(stability_score, One)]

\* the list built by the loop of calculate_quality_stability
RECURSIVE TripleRates(_)
TripleRates(vs) ==
    IF vs = <<>> THEN <<>>
    ELSE LET video == Head(vs)
             view == video.view
         IN  IF view > 0
             THEN <<Rat(video.like + video.coin + video.favorite, view)>>
                      \o TripleRates(Tail(vs))
             ELSE TripleRates(Tail(vs))

\* mutant of calculate_quality_stability: 0 when no video has views
calculate_quality_stability_zero(m0, vs) ==
    LET m1 == start_operation(m0, "calculate_quality_stability")
    IN  IF Len(vs) < 2
        THEN [mon |-> end_operation(m1, TRUE), ret |-> Half]
        ELSE LET triple_rates == TripleRates(vs)
             IN  IF triple_rates = <<>>
                 THEN [mon |-> end_operation(m1, TRUE), ret |-> 0]
                 ELSE LET rate_std == NpStd(triple_rates)
                          avg_rate == NpMean(triple_rates)
                          relative_std == IF avg_rate.num > 0
                                          THEN SurdOverRat(rate_std, avg_rate)
                                          ELSE One
                          stability_score == OneOverOnePlus(relative_std)
                      IN  [mon |-> end_operation(m1, TRUE),
                           ret |-> Min(stability_score, One)]

\* mutant of calculate_quality_stability: a zero mean rate takes relative_std 0
calculate_quality_stability_nosentinel(m0, vs) ==
    LET m1 == start_operation(m0, "calculate_quality_stability")
    IN  IF Len(vs) < 2
        THEN [mon |-> end_operation(m1, TRUE), ret |-> Half]
        ELSE LET triple_rates == TripleRates(vs)
             IN  IF triple_rates = <<>>
                 THEN [mon |-> end_operation(m1, TRUE), ret |-> Half]
                 ELSE LET rate_std == NpStd(triple_rates)
                          avg_rate == NpMean(triple_rates)
                          relative_std == IF avg_rate.num > 0
                                          THEN SurdOverRat(rate_std, avg_rate)
                                          ELSE 0
                          stability_score == OneOverOnePlus(relative_std)
                      IN  [mon |-> end_operation(m1, TRUE),
                           ret |-> Min(stability_score, One)]

calculate_quality_stability(m0, vs) ==
    LET m1 == start_operation(m0, "calculate_quality_stability")
    IN  IF Len(vs) < 2
        THEN [mon |-> end_operation(m1, TRUE), ret |-> Half]
        ELSE LET triple_rates == TripleRates(vs)
             IN  IF triple_rates = <<>>
                 THEN [mon |-> end_operation(m1, TRUE), ret |-> Half]
                 ELSE LET rate_std == NpStd(triple_rates)
                          avg_rate == NpMean(triple_rates)
                          relative_std == IF avg_rate.num > 0
                                          THEN SurdOverRat(rate_std, avg_rate)
                                          ELSE One
                          stability_score == OneOverOnePlus(relative_std)
                      IN  [mon |-> end_operation(m1, TRUE),
                           ret |-> Min(stability_score, One)]

\* time_weight = 0.6 and quality_weight = 0.4, in tenths
TimeWeight == 6
QualityWeight == 4

\* the if/elif chain on overall_stability (in units of 1/(10 * Scale)); the
\* labels stand for the source's level strings, best first
StabilityLevel(overall) ==
    IF overall >= 8 * Scale THEN "Excellent"
    ELSE IF overall >= 6 * Scale THEN "Good"
    ELSE IF overall >= 4 * Scale THEN "Fair"
    ELSE "NeedsImprovement"

\* mutant of evaluate_up_stability: the two weights swapped
evaluate_up_stability_swapped(m0, ts, vs) ==
    LET m1 == start_operation(m0, "evaluate_up_stability")
        t == calculate_time_stability(m1, ts)
        q == calculate_quality_stability(t.mon, vs)
        time_stability == t.ret
        quality_stability == q.ret
        overall_stability == time_stability * QualityWeight + quality_stability * TimeWeight
        result == [time_stability |-> Round3(time_stability, Scale),
                   quality_stability |-> Round3(quality_stability, Scale),
                   overall_stability |-> Round3(overall_stability, 10 * Scale),
                   stability_level |-> StabilityLevel(overall_stability),
                   video_count |-> Len(vs)]
    IN  [mon |-> end_operation(q.mon, TRUE), ret |-> result]

\* mutant of evaluate_up_stability: video_count counts the timestamps
evaluate_up_stability_tscount(m0, ts, vs) ==
    LET m1 == start_operation(m0, "evaluate_up_stability")
        t == calculate_time_stability(m1, ts)
        q == calculate_quality_stability(t.mon, vs)
        time_stability == t.ret
        quality_stability == q.ret
        overall_stability == time_stability * TimeWeight + quality_stability * QualityWeight
        result == [time_stability |-> Round3(time_stability, Scale),
                   quality_stability |-> Round3(quality_stability, Scale),
                   overall_stability |-> Round3(overall_stability, 10 * Scale),
                   stability_level |-> StabilityLevel(overall_stability),
                   video_count |-> Len(ts)]
    IN  [mon |-> end_operation(q.mon, TRUE), ret |-> result]

evaluate_up_stability(m0, ts, vs) ==
    LET m1 == start_operation(m0, "evaluate_up_stability")
        t == calculate_time_stability(m1, ts)
        q == calculate_quality_stability(t.mon, vs)
        time_stability == t.ret
        quality_stability == q.ret
        overall_stability == time_stability * TimeWeight + quality_stability * QualityWeight
        result == [time_stability |-> Round3(time_stability, Scale),
                   quality_stability |-> Round3(quality_stability, Scale),
                   overall_stability |-> Round3(overall_stability, 10 * Scale),
                   stability_level |-> StabilityLevel(overall_stability),
                   video_count |-> Len(vs)]
    IN  [mon |-> end_operation(q.mon, TRUE), ret |-> result]

\* the if/elif chain of generate_stability_report on the rounded
\* overall_stability of the result (thousandths): the tier the advice names
AdviceTier(overall_score) ==
    IF overall_score >= 800 THEN "Excellent"
    ELSE IF overall_score >= 600 THEN "Good"
    ELSE IF overall_score >= 400 THEN "Fair"
    ELSE "NeedsImprovement"

generate_stability_report(m0, stability_result) ==
    LET m1 == start_operation(m0, "generate_stability_report")
    IN  [mon |-> end_operation(m1, TRUE),
         ret |-> [level |-> stability_result.stability_level,
                  advice |-> AdviceTier(stability_result.overall_stability)]]

----------------------------------------------------------------------------
\* StabilityAnalyzer and InteractionAnalyzer of src/core/analyzer.py, built by
\* BilibiliVideoAnalyzer with a monitor attached.  The except handlers of
\* these methods are not modelled: on lists of integers and on records that
\* carry every key the try bodies raise nothing.

SA_calculate_time_stability(m0, ts) ==
    LET m1 == start_operation(m0, "calculate_time_stability")
    IN  IF Len(ts) < 2
        THEN [mon |-> end_operation(m1, TRUE), ret |-> Half]
        ELSE LET intervals == NpDiff(Sorted(ts))
                 std_seconds == NpStd(intervals)
                 avg_interval == NpMean(intervals)
                 baseline_cycle == RatMax(avg_interval, Rat(Day, 1))
                 relative_volatility == SurdOverRat(std_seconds, baseline_cycle)
                 stability_score == OneOverOnePlus(relative_volatility)
             IN  [mon |-> end_operation(m1, TRUE), ret |-> Min(stability_score, One)]

SA_calculate_quality_stability(m0, vs) ==
    LET m1 == start_operation(m0, "calculate_quality_stability")
    IN  IF Len(vs) < 2
        THEN [mon |-> end_operation(m1, TRUE), ret |-> Half]
        ELSE LET triple_rates == TripleRates(vs)
             IN  IF triple_rates = <<>>
                 THEN [mon |-> end_operation(m1, TRUE), ret |-> Half]
                 ELSE LET rate_std == NpStd(triple_rates)
                          avg_rate == NpMean(triple_rates)
                          relative_std == IF avg_rate.num > 0
                                          THEN SurdOverRat(rate_std, avg_rate)
                                          ELSE One
                          stability_score == OneOverOnePlus(relative_std)
                      IN  [mon |-> end_operation(m1, TRUE),
                           ret |-> Min(stability_score, One)]

SA_evaluate_up_stability(m0, ts, vs) ==
    LET m1 == start_operation(m0, "evaluate_up_stability")
        t == SA_calculate_time_stability(m1, ts)
        q == SA_calculate_quality_stability(t.mon, vs)
        time_stability == t.ret
        quality_stability == q.ret
        overall_stability == time_stability * 6 + quality_stability * 4
        result == [time_stability |-> Round3(time_stability, Scale),
                   quality_stability |-> Round3(quality_stability, Scale),
                   overall_stability |-> Round3(overall_stability, 10 * Scale),
                   stability_level |-> StabilityLevel(overall_stability),
                   video_count |-> Len(vs)]
    IN  [mon |-> end_operation(q.mon, TRUE), ret |-> result]

SA_generate_stability_report(m0, stability_result) ==
    LET m1 == start_operation(m0, "generate_stability_report")
    IN  [mon |-> end_operation(m1, TRUE),
         ret |-> [level |-> stability_result.stability_level,
                  advice |-> AdviceTier(stability_result.overall_stability)]]

----------------------------------------------------------------------------
\* InteractionAnalyzer (interaction_analyzer.py)

\* mutant of RateList: a video without views contributes the rate 0
RECURSIVE RateList_zerofill(_, _, _)
RateList_zerofill(vs, key, factor) ==
    IF vs = <<>> THEN <<>>
    ELSE LET v == Head(vs)
         IN  IF v.view > 0
             THEN <<Rat(v[key] * factor, v.view)>> \o RateList_zerofill(Tail(vs), key, factor)
             ELSE <<Rat(0, 1)>> \o RateList_zerofill(Tail(vs), key, factor)

\* [v[key] / view * factor for v in user_videos if view > 0]
RECURSIVE RateList(_, _, _)
RateList(vs, key, factor) ==
    IF vs = <<>> THEN <<>>
    ELSE LET v == Head(vs)
         IN  IF v.view > 0
             THEN <<Rat(v[key] * factor, v.view)>> \o RateList(Tail(vs), key, factor)
             ELSE RateList(Tail(vs), key, factor)

\* np.mean(xs) if xs else 0
MeanOrZero(xs) == IF xs = <<>> THEN Rat(0, 1) ELSE NpMean(xs)

\* the value None returned for an empty list
NoneMetrics ==
    [none |-> TRUE, like_rate |-> Rat(0, 1), coin_rate |-> Rat(0, 1),
     favorite_rate |-> Rat(0, 1), danmaku_density |-> Rat(0, 1),
     comment_rate |-> Rat(0, 1), video_count |-> 0, avg_views |-> Rat(0, 1)]

\* mutant of analyze_interaction_level: avg_views averages the videos with views
analyze_interaction_level_watchedviews(user_videos) ==
    IF user_videos = <<>> THEN NoneMetrics
    ELSE LET views == RateList(user_videos, "view", 1)
             like_rates == RateList(user_videos, "like", 1)
             coin_rates == RateList(user_videos, "coin", 1)
             favorite_rates == RateList(user_videos, "favorite", 1)
             danmaku_densities == RateList(user_videos, "danmaku", 60)
             comment_rates == RateList(user_videos, "reply", 1)
         IN  [none |-> FALSE,
              like_rate |-> MeanOrZero(like_rates),
              coin_rate |-> MeanOrZero(coin_rates),
              favorite_rate |-> MeanOrZero(favorite_rates),
              danmaku_density |-> MeanOrZero(danmaku_densities),
              comment_rate |-> MeanOrZero(comment_rates),
              video_count |-> Len(user_videos),
              avg_views |-> IF views = <<>> THEN Rat(0, 1)
                            ELSE Rat(Sum([i \in 1..Len(user_videos) |-> user_videos[i].view]),
                                     Len(views))]

\* mutant of analyze_interaction_level: video_count counts the videos with views
analyze_interaction_level_counted(user_videos) ==
    IF user_videos = <<>> THEN NoneMetrics
    ELSE LET views == [i \in 1..Len(user_videos) |-> Rat(user_videos[i].view, 1)]
             like_rates == RateList(user_videos, "like", 1)
             coin_rates == RateList(user_videos, "coin", 1)
             favorite_rates == RateList(user_videos, "favorite", 1)
             danmaku_densities == RateList(user_videos, "danmaku", 60)
             comment_rates == RateList(user_videos, "reply", 1)
         IN  [none |-> FALSE,
              like_rate |-> MeanOrZero(like_rates),
              coin_rate |-> MeanOrZero(coin_rates),
              favorite_rate |-> MeanOrZero(favorite_rates),
              danmaku_density |-> MeanOrZero(danmaku_densities),
              comment_rate |-> MeanOrZero(comment_rates),
              video_count |-> Len(like_rates),
              avg_views |-> MeanOrZero(views)]

analyze_interaction_level(user_videos) ==
    IF user_videos = <<>> THEN NoneMetrics
    ELSE LET views == [i \in 1..Len(user_videos) |-> Rat(user_videos[i].view, 1)]
             like_rates == RateList(user_videos, "like", 1)
             coin_rates == RateList(user_videos, "coin", 1)
             favorite_rates == RateList(user_videos, "favorite", 1)
             danmaku_densities == RateList(user_videos, "danmaku", 60)
             comment_rates == RateList(user_videos, "reply", 1)
         IN  [none |-> FALSE,
              like_rate |-> MeanOrZero(like_rates),
              coin_rate |-> MeanOrZero(coin_rates),
              favorite_rate |-> MeanOrZero(favorite_rates),
              danmaku_density |-> MeanOrZero(danmaku_densities),
              comment_rate |-> MeanOrZero(comment_rates),
              video_count |-> Len(user_videos),
              avg_views |-> MeanOrZero(views)]

\* InteractionAnalyzer.analyze_interaction_level of src/core/analyzer.py
CA_analyze_interaction_level(user_videos) ==
    IF user_videos = <<>> THEN NoneMetrics
    ELSE LET views == [i \in 1..Len(user_videos) |-> Rat(user_videos[i].view, 1)]
             like_rates == RateList(user_videos, "like", 1)
             coin_rates == RateList(user_videos, "coin", 1)
             favorite_rates == RateList(user_videos, "favorite", 1)
             danmaku_densities == RateList(user_videos, "danmaku", 60)
             comment_rates == RateList(user_videos, "reply", 1)
         IN  [none |-> FALSE,
              like_rate |-> MeanOrZero(like_rates),
              coin_rate |-> MeanOrZero(coin_rates),
              favorite_rate |-> MeanOrZero(favorite_rates),
              danmaku_density |-> MeanOrZero(danmaku_densities),
              comment_rate |-> MeanOrZero(comment_rates),
              video_count |-> Len(user_videos),
              avg_views |-> MeanOrZero(views)]

\* exact arithmetic on rationals; a denominator stays positive
RatNorm(a) ==
    LET g == Gcd(IF a.num < 0 THEN 0 - a.num ELSE a.num, a.den)
    IN  Rat(a.num \div g, a.den \div g)

\* exact sum of rationals, kept in lowest terms
RatAdd(a, b) ==
    LET n == a.num * b.den + b.num * a.den
        d == a.den * b.den
        g == Gcd(n, d)
    IN  Rat(n \div g, d \div g)

RatSub(a, b) == RatNorm(Rat(a.num * b.den - b.num * a.den, a.den * b.den))

\* a / b for b # 0
RatDiv(a, b) ==
    IF b.num > 0 THEN RatNorm(Rat(a.num * b.den, a.den * b.num))
    ELSE RatNorm(Rat(0 - a.num * b.den, 0 - a.den * b.num))

RatMul(a, b) == RatNorm(Rat(a.num * b.num, a.den * b.den))

\* int(x): truncation toward zero
IntOf(a) == IF a.num >= 0 THEN a.num \div a.den ELSE 0 - ((0 - a.num) \div a.den)

\* the default table of load_benchmarks, in ten-thousandths
DefaultBenchmarks ==
    [startup_benchmarks |->
        [engagement_standards |->
            [like_rate_benchmark |-> Rat(436, 10000),
             coin_rate_benchmark |-> Rat(101, 10000),
             good_performance_threshold |-> Rat(499, 10000)]],
     current_benchmarks |->
        [engagement_standards |->
            [like_rate_benchmark |-> Rat(439, 10000),
             coin_rate_benchmark |-> Rat(75, 10000),
             good_performance_threshold |-> Rat(552, 10000)]]]

\* a benchmark file somebody wrote: other values, and a coin-rate entry of 0
CustomBenchmarks ==
    [startup_benchmarks |->
        [engagement_standards |->
            [like_rate_benchmark |-> Rat(300, 10000),
             coin_rate_benchmark |-> Rat(0, 10000),
             good_performance_threshold |-> Rat(400, 10000)]],
     current_benchmarks |->
        [engagement_standards |->
            [like_rate_benchmark |-> Rat(500, 10000),
             coin_rate_benchmark |-> Rat(75, 10000),
             good_performance_threshold |-> Rat(600, 10000)]]]

\* a JSON document that is not a benchmark table: {"version": 1}
OtherDocument == [version |-> 1]

\* what open() and json.load() can meet: no file, a file that cannot be
\* read, text that is not JSON, JSON without the benchmark keys, a table
NoFile       == [exists |-> FALSE, readable |-> FALSE, json |-> FALSE, value |-> OtherDocument]
LockedFile   == [exists |-> TRUE,  readable |-> FALSE, json |-> FALSE, value |-> OtherDocument]
GarbageFile  == [exists |-> TRUE,  readable |-> TRUE,  json |-> FALSE, value |-> OtherDocument]
KeylessFile  == [exists |-> TRUE,  readable |-> TRUE,  json |-> TRUE,  value |-> OtherDocument]
CustomFile   == [exists |-> TRUE,  readable |-> TRUE,  json |-> TRUE,  value |-> CustomBenchmarks]

BenchmarkFiles == {NoFile, LockedFile, GarbageFile, KeylessFile, CustomFile}

\* try: open + json.load; a bare except returns the default table
load_benchmarks(benchmark_file) ==
    IF benchmark_file.exists /\ benchmark_file.readable /\ benchmark_file.json
    THEN benchmark_file.value
    ELSE DefaultBenchmarks

\* InteractionAnalyzer._load_benchmarks of src/core/analyzer.py
CA_load_benchmarks(benchmark_file) ==
    IF benchmark_file.exists /\ benchmark_file.readable /\ benchmark_file.json
    THEN benchmark_file.value
    ELSE DefaultBenchmarks

\* the emoji of a tier: "trophy" for the top tier, "star" for the middle
\* tier, "bulb" for the low tier; the bar is the pair of its block counts
Bar(score) ==
    LET n == IntOf(RatMul(score, Rat(20, 1)))
    IN  [filled |-> IF n > 0 THEN n ELSE 0,
         empty |-> IF 20 - n > 0 THEN 20 - n ELSE 0]

Evaluated(score, emoji) ==
    [raised |-> "None", score |-> score, emoji |-> emoji, bar |-> Bar(score)]

\* an exception left the function
Raise(exception) ==
    [raised |-> exception, score |-> Rat(0, 1), emoji |-> "None",
     bar |-> [filled |-> 0, empty |-> 0]]

\* mutant of _evaluate_metric: startup_bench is tested first
_evaluate_metric_startupfirst(user_value, startup_bench, current_bench) ==
    IF RatGE(user_value, startup_bench)
    THEN IF RatEq(current_bench, startup_bench) THEN Evaluated(Rat(1, 1), "trophy")
         ELSE Evaluated(RatDiv(RatSub(user_value, startup_bench),
                               RatSub(current_bench, startup_bench)), "star")
    ELSE IF RatGE(user_value, current_bench)
    THEN Evaluated(Rat(1, 1), "trophy")
    ELSE IF startup_bench.num = 0 THEN Raise("ZeroDivisionError")
         ELSE Evaluated(RatDiv(user_value, startup_bench), "bulb")

\* mutant of _evaluate_metric: the top tier needs both benchmarks reached
_evaluate_metric_bothbenches(user_value, startup_bench, current_bench) ==
    IF RatGE(user_value, current_bench) /\ RatGE(user_value, startup_bench)
    THEN Evaluated(Rat(1, 1), "trophy")
    ELSE IF RatGE(user_value, startup_bench)
    THEN IF RatEq(current_bench, startup_bench) THEN Raise("ZeroDivisionError")
         ELSE Evaluated(RatDiv(RatSub(user_value, startup_bench),
                               RatSub(current_bench, startup_bench)), "star")
    ELSE IF startup_bench.num = 0 THEN Raise("ZeroDivisionError")
         ELSE Evaluated(RatDiv(user_value, startup_bench), "bulb")

\* mutant of _evaluate_metric: the middle tier starts above startup_bench
_evaluate_metric_strict(user_value, startup_bench, current_bench) ==
    IF RatGE(user_value, current_bench)
    THEN Evaluated(Rat(1, 1), "trophy")
    ELSE IF ~RatGE(startup_bench, user_value)
    THEN IF RatEq(current_bench, startup_bench) THEN Raise("ZeroDivisionError")
         ELSE Evaluated(RatDiv(RatSub(user_value, startup_bench),
                               RatSub(current_bench, startup_bench)), "star")
    ELSE IF startup_bench.num = 0 THEN Raise("ZeroDivisionError")
         ELSE Evaluated(RatDiv(user_value, startup_bench), "bulb")

\* a division by a zero benchmark raises ZeroDivisionError (an infinite
\* score, when the dividend is a numpy float, raises OverflowError in int())
_evaluate_metric(user_value, startup_bench, current_bench) ==
    IF RatGE(user_value, current_bench)
    THEN Evaluated(Rat(1, 1), "trophy")
    ELSE IF RatGE(user_value, startup_bench)
    THEN IF RatEq(current_bench, startup_bench) THEN Raise("ZeroDivisionError")
         ELSE Evaluated(RatDiv(RatSub(user_value, startup_bench),
                               RatSub(current_bench, startup_bench)), "star")
    ELSE IF startup_bench.num = 0 THEN Raise("ZeroDivisionError")
         ELSE Evaluated(RatDiv(user_value, startup_bench), "bulb")

\* mutant of _evaluate_danmaku: the middle tier interpolates from 0
_evaluate_danmaku_nooffset(density, bench) ==
    IF RatGE(density, RatMul(bench, Rat(2, 1)))
    THEN Evaluated(Rat(1, 1), "trophy")
    ELSE IF RatGE(density, bench)
    THEN IF bench.num = 0 THEN Raise("ZeroDivisionError")
         ELSE Evaluated(RatMul(RatDiv(RatSub(density, bench), bench), Rat(1, 2)), "star")
    ELSE IF bench.num = 0 THEN Raise("ZeroDivisionError")
         ELSE Evaluated(RatDiv(density, bench), "bulb")

_evaluate_danmaku(density, bench) ==
    IF RatGE(density, RatMul(bench, Rat(2, 1)))
    THEN Evaluated(Rat(1, 1), "trophy")
    ELSE IF RatGE(density, bench)
    THEN IF bench.num = 0 THEN Raise("ZeroDivisionError")
         ELSE Evaluated(RatAdd(Rat(1, 2),
                               RatMul(RatDiv(RatSub(density, bench), bench),
                                      Rat(1, 2))), "star")
    ELSE IF bench.num = 0 THEN Raise("ZeroDivisionError")
         ELSE Evaluated(RatDiv(density, bench), "bulb")

\* the suggestion strings, by what they are about
GenericSuggestions == <<"KeepUpdating", "CopySuccess", "ReplyComments">>

\* the density below which the danmaku suggestion fires
DanmakuSuggestionBelow == 3

\* suggestions[:3]
FirstThree(xs) == IF Len(xs) <= 3 THEN xs ELSE SubSeq(xs, 1, 3)

\* the three conditional appends, in the order of the code
TriggeredSuggestions(user_metrics, startup_bench) ==
    (IF ~RatGE(user_metrics.like_rate, startup_bench.like_rate_benchmark)
     THEN <<"GuideLikes">> ELSE <<>>)
    \o (IF ~RatGE(user_metrics.coin_rate, startup_bench.coin_rate_benchmark)
        THEN <<"RaiseCoinValue">> ELSE <<>>)
    \o (IF ~RatGE(user_metrics.danmaku_density, Rat(DanmakuSuggestionBelow, 1))
        THEN <<"AddTopics">> ELSE <<>>)

\* mutant of _generate_suggestions: the list is returned whole
_generate_suggestions_untruncated(user_metrics, startup_bench) ==
    LET suggestions == TriggeredSuggestions(user_metrics, startup_bench)
    IN  IF Len(suggestions) < 3 THEN suggestions \o GenericSuggestions
        ELSE suggestions

_generate_suggestions(user_metrics, startup_bench) ==
    LET suggestions == TriggeredSuggestions(user_metrics, startup_bench)
    IN  FirstThree(IF Len(suggestions) < 3 THEN suggestions \o GenericSuggestions
                   ELSE suggestions)

\* the benchmark of the danmaku density, per minute
DanmakuBench == 5

\* the keys generate_interaction_report reads from self.benchmarks
HasEngagementStandards(b, section) ==
    /\ section \in DOMAIN b
    /\ "engagement_standards" \in DOMAIN b[section]
    /\ {"like_rate_benchmark", "coin_rate_benchmark"}
           \subseteq DOMAIN b[section]["engagement_standards"]

HasBenchmarkKeys(b) ==
    /\ HasEngagementStandards(b, "startup_benchmarks")
    /\ HasEngagementStandards(b, "current_benchmarks")

GrowthStage(avg_views) ==
    IF ~RatGE(avg_views, Rat(100000, 1)) THEN "Newcomer"
    ELSE IF ~RatGE(avg_views, Rat(500000, 1)) THEN "Growing"
    ELSE "Established"

NoEval == Raise("None")

NoReport ==
    [stage |-> "None", like_score |-> NoEval, coin_score |-> NoEval,
     danmaku_score |-> NoEval, suggestions |-> <<>>]

\* the outcome of a method of the analyzer: self.benchmarks after the call,
\* the exception that left it ("None" if it returned) and the report
Reported(benchmarks_after, exception, report) ==
    [benchmarks |-> benchmarks_after, raised |-> exception, ret |-> report]

\* mutant of generate_interaction_report: the table is reset to the defaults
generate_interaction_report_reload(self_benchmarks, user_metrics) ==
    IF ~HasBenchmarkKeys(self_benchmarks)
    THEN Reported(DefaultBenchmarks, "KeyError", NoReport)
    ELSE IF user_metrics.none
    THEN Reported(DefaultBenchmarks, "TypeError", NoReport)
    ELSE
    LET startup_bench == self_benchmarks.startup_benchmarks.engagement_standards
        current_bench == self_benchmarks.current_benchmarks.engagement_standards
        like_score == _evaluate_metric(RatNorm(user_metrics.like_rate),
                                       startup_bench.like_rate_benchmark,
                                       current_bench.like_rate_benchmark)
        coin_score == _evaluate_metric(RatNorm(user_metrics.coin_rate),
                                       startup_bench.coin_rate_benchmark,
                                       current_bench.coin_rate_benchmark)
        danmaku_score == _evaluate_danmaku(RatNorm(user_metrics.danmaku_density),
                                           Rat(DanmakuBench, 1))
        suggestions == _generate_suggestions(user_metrics, startup_bench)
    IN  IF like_score.raised # "None"
        THEN Reported(DefaultBenchmarks, like_score.raised, NoReport)
        ELSE IF coin_score.raised # "None"
        THEN Reported(DefaultBenchmarks, coin_score.raised, NoReport)
        ELSE IF danmaku_score.raised # "None"
        THEN Reported(DefaultBenchmarks, danmaku_score.raised, NoReport)
        ELSE Reported(DefaultBenchmarks, "None",
                      [stage |-> GrowthStage(user_metrics.avg_views),
                       like_score |-> like_score,
                       coin_score |-> coin_score,
                       danmaku_score |-> danmaku_score,
                       suggestions |-> FirstThree(suggestions)])

\* the report, as the values its lines print; a missing key raises KeyError
\* at the first two lines, user_metrics = None raises TypeError at the
\* first subscript, and an exception of an evaluation passes through
generate_interaction_report(self_benchmarks, user_metrics) ==
    IF ~HasBenchmarkKeys(self_benchmarks)
    THEN Reported(self_benchmarks, "KeyError", NoReport)
    ELSE IF user_metrics.none
    THEN Reported(self_benchmarks, "TypeError", NoReport)
    ELSE
    LET startup_bench == self_benchmarks.startup_benchmarks.engagement_standards
        current_bench == self_benchmarks.current_benchmarks.engagement_standards
        like_score == _evaluate_metric(RatNorm(user_metrics.like_rate),
                                       startup_bench.like_rate_benchmark,
                                       current_bench.like_rate_benchmark)
        coin_score == _evaluate_metric(RatNorm(user_metrics.coin_rate),
                                       startup_bench.coin_rate_benchmark,
                                       current_bench.coin_rate_benchmark)
        danmaku_score == _evaluate_danmaku(RatNorm(user_metrics.danmaku_density),
                                           Rat(DanmakuBench, 1))
        suggestions == _generate_suggestions(user_metrics, startup_bench)
    IN  IF like_score.raised # "None"
        THEN Reported(self_benchmarks, like_score.raised, NoReport)
        ELSE IF coin_score.raised # "None"
        THEN Reported(self_benchmarks, coin_score.raised, NoReport)
        ELSE IF danmaku_score.raised # "None"
        THEN Reported(self_benchmarks, danmaku_score.raised, NoReport)
        ELSE Reported(self_benchmarks, "None",
                      [stage |-> GrowthStage(user_metrics.avg_views),
                       like_score |-> like_score,
                       coin_score |-> coin_score,
                       danmaku_score |-> danmaku_score,
                       suggestions |-> FirstThree(suggestions)])

----------------------------------------------------------------------------
\* The state machine: one caller (BilibiliVideoAnalyzer) holding a monitor, a
\* stability analyzer and an interaction analyzer, and calling them on one
\* pair of argument lists.  package says which copy of the classes it built:
\* "flat" for core_services.py / interaction_analyzer.py / performance.py,
\* "src" for src/core/analyzer.py / src/utils/performance.py.

\* ---------------------------------------------------------------------
\* InfrastructureLayer (core_services.py) and BilibiliClient
\* (src/data/bilibili_client.py): the wrappers every network and file
\* operation goes through.  The wrapped operation is given by its outcome:
\* it returns value, or raises exception.
\* Python's None, and a value that is not None
NoValue == [none |-> TRUE, content |-> "None"]

Data(content) == [none |-> FALSE, content |-> content]

Returns(value) == [raises |-> FALSE, value |-> value, exception |-> "None"]

Raises(exception) == [raises |-> TRUE, value |-> NoValue, exception |-> exception]

\* what a wrapper hands to its caller
Handed(m, ret, exception) == [mon |-> m, ret |-> ret, raised |-> exception]

\* mutant of network_request: a failed operation is not reported
network_request_unreported(m0, operation_name, coroutine) ==
    LET m1 == start_operation(m0, operation_name)
    IN  IF ~coroutine.raises
        THEN Handed(end_operation(m1, TRUE), coroutine.value, "None")
        ELSE Handed(m1, NoValue, coroutine.exception)

network_request(m0, operation_name, coroutine) ==
    LET m1 == start_operation(m0, operation_name)
    IN  IF ~coroutine.raises
        THEN Handed(end_operation(m1, TRUE), coroutine.value, "None")
        ELSE Handed(end_operation(m1, FALSE), NoValue, coroutine.exception)

file_operation(m0, operation_name, operation_func) ==
    LET m1 == start_operation(m0, operation_name)
    IN  IF ~operation_func.raises
        THEN Handed(end_operation(m1, TRUE), operation_func.value, "None")
        ELSE Handed(end_operation(m1, FALSE), NoValue, operation_func.exception)

\* BilibiliClient.get_video_info: building the result from an empty answer
\* raises TypeError inside the try block; every Exception is swallowed and
\* None is returned
get_video_info(m0, operation_name, coroutine) ==
    LET m1 == start_operation(m0, operation_name)
    IN  IF ~coroutine.raises /\ ~coroutine.value.none
        THEN Handed(end_operation(m1, TRUE), coroutine.value, "None")
        ELSE Handed(end_operation(m1, FALSE), NoValue, "None")

\* ---------------------------------------------------------------------
\* BusinessLayer of bilibili_analyzer.py (lines 197-290): the single-file
\* copy of the scoring functions
BA_calculate_time_stability(m0, ts) ==
    LET m1 == start_operation(m0, "calculate_time_stability")
    IN  IF Len(ts) < 2
        THEN [mon |-> end_operation(m1, TRUE), ret |-> Half]
        ELSE LET intervals == NpDiff(Sorted(ts))
                 std_seconds == NpStd(intervals)
                 avg_interval == NpMean(intervals)
                 baseline_cycle == RatMax(avg_interval, Rat(Day, 1))
                 relative_volatility == SurdOverRat(std_seconds, baseline_cycle)
                 stability_score == OneOverOnePlus(relative_volatility)
             IN  [mon |-> end_operation(m1, TRUE), ret |-> Min(stability_score, One)]

BA_calculate_quality_stability(m0, vs) ==
    LET m1 == start_operation(m0, "calculate_quality_stability")
    IN  IF Len(vs) < 2
        THEN [mon |-> end_operation(m1, TRUE), ret |-> Half]
        ELSE LET triple_rates == TripleRates(vs)
             IN  IF triple_rates = <<>>
                 THEN [mon |-> end_operation(m1, TRUE), ret |-> Half]
                 ELSE LET rate_std == NpStd(triple_rates)
                          avg_rate == NpMean(triple_rates)
                          relative_std == IF avg_rate.num > 0
                                          THEN SurdOverRat(rate_std, avg_rate)
                                          ELSE One
                          stability_score == OneOverOnePlus(relative_std)
                      IN  [mon |-> end_operation(m1, TRUE),
                           ret |-> Min(stability_score, One)]

BA_evaluate_up_stability(m0, ts, vs) ==
    LET m1 == start_operation(m0, "evaluate_up_stability")
        t == BA_calculate_time_stability(m1, ts)
        q == BA_calculate_quality_stability(t.mon, vs)
        time_stability == t.ret
        quality_stability == q.ret
        overall_stability == time_stability * 6 + quality_stability * 4
        result == [time_stability |-> Round3(time_stability, Scale),
                   quality_stability |-> Round3(quality_stability, Scale),
                   overall_stability |-> Round3(overall_stability, 10 * Scale),
                   stability_level |-> StabilityLevel(overall_stability),
                   video_count |-> Len(vs)]
    IN  [mon |-> end_operation(q.mon, TRUE), ret |-> result]

\* ---------------------------------------------------------------------
\* SimpleAnalyzer.analyze_stability of run.py (lines 70-122), from the
\* list of video records it has assembled.  overall_stability is in units
\* of 1/(10 * Scale), as in evaluate_up_stability.
Analysed(returned, time_stability, quality_stability, overall_stability, level) ==
    [ret |-> returned, time_stability |-> time_stability,
     quality_stability |-> quality_stability,
     overall_stability |-> overall_stability, level |-> level]

\* mutant of analyze_stability: the interval mean without the one-day floor
analyze_stability_nofloor(all_videos_data) ==
    IF Len(all_videos_data) < 2
    THEN Analysed(FALSE, 0 - 1, 0 - 1, 0 - 1, "None")
    ELSE LET timestamps_ == [i \in 1..Len(all_videos_data) |->
                                all_videos_data[i].pub_timestamp]
             intervals == NpDiff(Sorted(timestamps_))
             time_std == NpStd(intervals)
             avg_interval == NpMean(intervals)
             time_stability ==
                 IF avg_interval.num > 0
                 THEN OneOverOnePlus(SurdOverRat(time_std, avg_interval))
                 ELSE One
             triple_rates == TripleRates(all_videos_data)
             quality_std == NpStd(triple_rates)
             quality_avg == NpMean(triple_rates)
             quality_stability ==
                 IF triple_rates # <<>>
                 THEN IF quality_avg.num > 0
                      THEN OneOverOnePlus(SurdOverRat(quality_std, quality_avg))
                      ELSE Half
                 ELSE Half
             overall_stability == time_stability * 6 + quality_stability * 4
         IN  Analysed(TRUE, time_stability, quality_stability, overall_stability,
                      StabilityLevel(overall_stability))

analyze_stability(all_videos_data) ==
    IF Len(all_videos_data) < 2
    THEN Analysed(FALSE, 0 - 1, 0 - 1, 0 - 1, "None")
    ELSE LET timestamps_ == [i \in 1..Len(all_videos_data) |->
                                all_videos_data[i].pub_timestamp]
             intervals == NpDiff(Sorted(timestamps_))
             time_std == NpStd(intervals)
             avg_interval == NpMean(intervals)
             time_stability ==
                 OneOverOnePlus(SurdOverRat(time_std, RatMax(avg_interval, Rat(Day, 1))))
             triple_rates == TripleRates(all_videos_data)
             quality_std == NpStd(triple_rates)
             quality_avg == NpMean(triple_rates)
             quality_stability ==
                 IF triple_rates # <<>>
                 THEN IF quality_avg.num > 0
                      THEN OneOverOnePlus(SurdOverRat(quality_std, quality_avg))
                      ELSE Half
                 ELSE Half
             overall_stability == time_stability * 6 + quality_stability * 4
         IN  Analysed(TRUE, time_stability, quality_stability, overall_stability,
                      StabilityLevel(overall_stability))

NoScore == 0 - 1

NoResult ==
    [time_stability |-> NoScore, quality_stability |-> NoScore,
     overall_stability |-> NoScore, stability_level |-> "None",
     video_count |-> NoScore]

NoAdvice == [level |-> "None", advice |-> "None"]

TheMonitor ==
    [Monitor(current_operation, operation_start_time, performance_data)
         EXCEPT !.starts = starts_since_clear]

SetMonitor(m) ==
    /\ current_operation' = m.current_operation
    /\ operation_start_time' = m.operation_start_time
    /\ performance_data' = m.performance_data
    /\ starts_since_clear' = m.starts

Fits(m) == Len(m.performance_data) <= MaxRecords

\* no call of an evaluation helper has been made
NoArgs == [none |-> TRUE]

\* the coroutines a caller may have in flight at the same time
MaxRequests == 2

RequestIds == 1..MaxRequests

\* a coroutine that has not been created yet
IdleRequest == [status |-> "idle", operation_name |-> "None", overlapped |-> FALSE]

\* no orchestration command has been run
NoCommand == [none |-> TRUE]

\* the caller has not named a creator
NoApi == [none |-> TRUE]

\* the infrastructure calls in flight, the creator's data and what the
\* last infrastructure call and the last command returned
caller_state == <<requests, ret_value, api, ret_command>>

\* the fields of the interaction analyzer and the values its report helpers
\* were called with and returned
interaction_state ==
    <<disk_file, benchmarks, call_args, ret_eval, ret_suggestions, ret_report,
      raised>>

\* T, V: the values of the argument lists; F: the benchmark files that
\* InteractionAnalyzer() may find
InitWith(T, V, F, A) ==
    /\ package \in {"flat", "src"}
    /\ starts_since_clear = 0
    /\ requests = [r \in RequestIds |-> IdleRequest]
    /\ ret_value = NoValue
    /\ api \in A
    /\ ret_command = NoCommand
    /\ disk_file \in F
    /\ benchmarks = IF package = "flat" THEN load_benchmarks(disk_file)
                    ELSE CA_load_benchmarks(disk_file)
    /\ call_args = NoArgs
    /\ ret_eval = NoEval
    /\ ret_suggestions = <<>>
    /\ ret_report = NoReport
    /\ raised = "None"
    /\ timestamps \in SeqsUpTo(T, MaxTimestamps)
    /\ videos_data \in SeqsUpTo(V, MaxVideos)
    /\ current_operation = "None"
    /\ operation_start_time = "None"
    /\ performance_data = <<>>
    /\ last_call = "None"
    /\ ret_score = NoScore
    /\ ret_result = NoResult
    /\ ret_metrics = NoneMetrics
    /\ ret_advice = NoAdvice

\* the repository ships no benchmark file
Init == InitWith(TimestampVals, VideoVals, {NoFile}, {NoApi})

CalculateTimeStability ==
    LET r == IF package = "flat"
             THEN calculate_time_stability(TheMonitor, timestamps)
             ELSE SA_calculate_time_stability(TheMonitor, timestamps)
    IN  /\ Fits(r.mon)
        /\ SetMonitor(r.mon)
        /\ last_call' = "calculate_time_stability"
        /\ ret_score' = r.ret
        /\ ret_result' = NoResult
        /\ ret_metrics' = NoneMetrics
        /\ ret_advice' = NoAdvice
        /\ UNCHANGED caller_state
        /\ UNCHANGED <<package, timestamps, videos_data>>
        /\ UNCHANGED interaction_state

CalculateQualityStability ==
    LET r == IF package = "flat"
             THEN calculate_quality_stability(TheMonitor, videos_data)
             ELSE SA_calculate_quality_stability(TheMonitor, videos_data)
    IN  /\ Fits(r.mon)
        /\ SetMonitor(r.mon)
        /\ last_call' = "calculate_quality_stability"
        /\ ret_score' = r.ret
        /\ ret_result' = NoResult
        /\ ret_metrics' = NoneMetrics
        /\ ret_advice' = NoAdvice
        /\ UNCHANGED caller_state
        /\ UNCHANGED <<package, timestamps, videos_data>>
        /\ UNCHANGED interaction_state

EvaluateUpStability ==
    LET r == IF package = "flat"
             THEN evaluate_up_stability(TheMonitor, timestamps, videos_data)
             ELSE SA_evaluate_up_stability(TheMonitor, timestamps, videos_data)
    IN  /\ Fits(r.mon)
        /\ SetMonitor(r.mon)
        /\ last_call' = "evaluate_up_stability"
        /\ ret_score' = NoScore
        /\ ret_result' = r.ret
        /\ ret_metrics' = NoneMetrics
        /\ ret_advice' = NoAdvice
        /\ UNCHANGED caller_state
        /\ UNCHANGED <<package, timestamps, videos_data>>
        /\ UNCHANGED interaction_state

\* the caller passes the result evaluate_up_stability returned
GenerateStabilityReport ==
    /\ last_call = "evaluate_up_stability"
    /\ LET r == IF package = "flat"
                THEN generate_stability_report(TheMonitor, ret_result)
                ELSE SA_generate_stability_report(TheMonitor, ret_result)
       IN  /\ Fits(r.mon)
           /\ SetMonitor(r.mon)
           /\ last_call' = "generate_stability_report"
           /\ ret_advice' = r.ret
           /\ UNCHANGED caller_state
           /\ UNCHANGED <<package, timestamps, videos_data, ret_score, ret_result, ret_metrics>>
           /\ UNCHANGED interaction_state

AnalyzeInteractionLevel ==
    /\ last_call' = "analyze_interaction_level"
    /\ ret_metrics' = IF package = "flat"
                      THEN analyze_interaction_level(videos_data)
                      ELSE CA_analyze_interaction_level(videos_data)
    /\ ret_score' = NoScore
    /\ ret_result' = NoResult
    /\ ret_advice' = NoAdvice
    /\ call_args' = NoArgs
    /\ ret_eval' = NoEval
    /\ ret_suggestions' = <<>>
    /\ ret_report' = NoReport
    /\ raised' = "None"
    /\ UNCHANGED starts_since_clear
    /\ UNCHANGED caller_state
    /\ UNCHANGED <<package, timestamps, videos_data, current_operation,
                   operation_start_time, performance_data, disk_file, benchmarks>>

ClearData ==
    /\ (performance_data # <<>> \/ starts_since_clear > 0)
    /\ SetMonitor(clear_data(TheMonitor))
    /\ UNCHANGED caller_state
    /\ UNCHANGED <<package, timestamps, videos_data, last_call, ret_score, ret_result,
                   ret_metrics, ret_advice>>
    /\ UNCHANGED interaction_state

\* The caller evaluates the stability of any pair of argument lists and
\* reports it
Next ==
    \/ EvaluateUpStability
    \/ GenerateStabilityReport
    \/ ClearData

Spec == Init /\ [][Next]_vars

\* The caller scores one list at a time (the other argument is the empty
\* list) with every scoring call of the analyzers
InitScores ==
    /\ InitWith(ScoreTimestampVals, ScoreVideoVals, {NoFile}, {NoApi})
    /\ (timestamps = <<>> \/ videos_data = <<>>)

NextScores ==
    \/ CalculateTimeStability
    \/ CalculateQualityStability
    \/ EvaluateUpStability
    \/ GenerateStabilityReport
    \/ AnalyzeInteractionLevel
    \/ ClearData

SpecScores == InitScores /\ [][NextScores]_vars

\* ---------------------------------------------------------------------
\* The monitor and the infrastructure wrappers, called one at a time.
\* The names the data layer gives to its network and file operations
OperationNames == {"get_user_info", "get_user_videos", "get_video_info", "save_data_file"}

\* a wrapped operation returns data, returns nothing, or raises
WrappedOutcomes == {Returns(Data("data")), Returns(NoValue), Raises("ApiError")}

\* no evaluation or scoring call has returned
NoReturn ==
    /\ ret_score' = NoScore
    /\ ret_result' = NoResult
    /\ ret_metrics' = NoneMetrics
    /\ ret_advice' = NoAdvice
    /\ ret_eval' = NoEval
    /\ ret_suggestions' = <<>>
    /\ ret_report' = NoReport

StartOperation ==
    \E operation_name \in OperationNames :
        /\ starts_since_clear <= MaxRecords
        /\ SetMonitor(start_operation(TheMonitor, operation_name))
        /\ last_call' = "start_operation"
        /\ call_args' = [operation_name |-> operation_name]
        /\ raised' = "None"
        /\ ret_value' = NoValue
        /\ NoReturn
        /\ UNCHANGED <<package, timestamps, videos_data, disk_file, benchmarks,
                       requests, api, ret_command>>

EndOperation ==
    \E success \in BOOLEAN :
        LET m == end_operation(TheMonitor, success)
        IN  /\ Fits(m)
            /\ SetMonitor(m)
            /\ last_call' = "end_operation"
            /\ call_args' = [success |-> success]
            /\ raised' = "None"
            /\ ret_value' = NoValue
            /\ NoReturn
            /\ UNCHANGED <<package, timestamps, videos_data, disk_file, benchmarks,
                           requests, api, ret_command>>

\* DataLayer.get_* (core_services.py) goes through network_request; the
\* src package calls BilibiliClient.get_video_info
NetworkRequest ==
    \E operation_name \in OperationNames \ {"save_data_file"},
       coroutine \in WrappedOutcomes :
        LET r == IF package = "flat"
                 THEN network_request(TheMonitor, operation_name, coroutine)
                 ELSE get_video_info(TheMonitor, operation_name, coroutine)
        IN  /\ starts_since_clear <= MaxRecords
            /\ Fits(r.mon)
            /\ SetMonitor(r.mon)
            /\ last_call' = "network_request"
            /\ call_args' = [operation_name |-> operation_name, wrapped |-> coroutine]
            /\ raised' = r.raised
            /\ ret_value' = r.ret
            /\ NoReturn
            /\ UNCHANGED <<package, timestamps, videos_data, disk_file, benchmarks,
                           requests, api, ret_command>>

\* only analysis.py saves through file_operation
FileOperation ==
    \E operation_func \in WrappedOutcomes :
        LET r == file_operation(TheMonitor, "save_data_file", operation_func)
        IN  /\ package = "flat"
            /\ starts_since_clear <= MaxRecords
            /\ Fits(r.mon)
            /\ SetMonitor(r.mon)
            /\ last_call' = "file_operation"
            /\ call_args' = [operation_name |-> "save_data_file", wrapped |-> operation_func]
            /\ raised' = r.raised
            /\ ret_value' = r.ret
            /\ NoReturn
            /\ UNCHANGED <<package, timestamps, videos_data, disk_file, benchmarks,
                           requests, api, ret_command>>

NextMonitor ==
    \/ StartOperation
    \/ EndOperation
    \/ ClearData
    \/ NetworkRequest
    \/ FileOperation

\* no argument list, no benchmark file, no creator
SpecMonitor == InitWith({}, {}, {NoFile}, {NoApi}) /\ [][NextMonitor]_vars

\* ---------------------------------------------------------------------
\* network_request coroutines sharing the monitor.  A coroutine runs up to
\* its await (core_services.py:22-24) in one step and from the completion
\* of the awaited operation to its end (lines 24-29) in another; between
\* the two steps the event loop may run another coroutine.
Awaiting == { r \in RequestIds : requests[r].status = "awaiting" }

CallNetworkRequest ==
    \E r \in RequestIds, operation_name \in OperationNames \ {"save_data_file"} :
        /\ requests[r].status = "idle"
        /\ SetMonitor(start_operation(TheMonitor, operation_name))
        /\ requests' = [q \in RequestIds |->
                           IF q = r
                           THEN [status |-> "awaiting", operation_name |-> operation_name,
                                 overlapped |-> Awaiting # {}]
                           ELSE IF q \in Awaiting
                                THEN [requests[q] EXCEPT !.overlapped = TRUE]
                                ELSE requests[q]]
        /\ last_call' = "network_request"
        /\ UNCHANGED <<package, timestamps, videos_data, disk_file, benchmarks,
                       call_args, raised, ret_value, api, ret_command, ret_score,
                       ret_result, ret_metrics, ret_advice, ret_eval,
                       ret_suggestions, ret_report>>

ResumeNetworkRequest ==
    \E r \in RequestIds, coroutine \in WrappedOutcomes :
        /\ requests[r].status = "awaiting"
        /\ SetMonitor(end_operation(TheMonitor, ~coroutine.raises))
        /\ requests' = [requests EXCEPT ![r].status =
                           IF coroutine.raises THEN "raised" ELSE "returned"]
        /\ raised' = coroutine.exception
        /\ ret_value' = coroutine.value
        /\ last_call' = "network_request"
        /\ UNCHANGED <<package, timestamps, videos_data, disk_file, benchmarks,
                       call_args, api, ret_command, ret_score, ret_result,
                       ret_metrics, ret_advice, ret_eval, ret_suggestions,
                       ret_report>>

\* InfrastructureLayer belongs to the flat package
InitConcurrent ==
    /\ InitWith({}, {}, {NoFile}, {NoApi})
    /\ package = "flat"

NextConcurrent ==
    \/ CallNetworkRequest
    \/ ResumeNetworkRequest

SpecConcurrent == InitConcurrent /\ [][NextConcurrent]_vars

\* The report helpers of interaction_analyzer.py.  Rates and benchmarks are
\* in ten-thousandths: below, between, at and above the default like-rate
\* pair (0.0436, 0.0439) and coin-rate pair (0.0101, 0.0075)
MetricVals ==
    { Rat(n, 10000) : n \in {0 - 100, 0, 50, 75, 90, 101, 400, 437, 439, 600} }

\* (startup_bench, current_bench): the default like-rate and coin-rate
\* pairs, the pairs of CustomBenchmarks, and two equal benchmarks
BenchPairs ==
    { <<Rat(p[1], 10000), Rat(p[2], 10000)>> :
          p \in { <<436, 439>>, <<101, 75>>, <<300, 500>>, <<0, 75>>, <<75, 75>>,
                   <<0, 0>> } }

DensityVals == { Rat(0, 1), Rat(3, 1), Rat(5, 1), Rat(6, 1), Rat(15, 2), Rat(10, 1), Rat(12, 1) }

DanmakuBenchVals == { Rat(DanmakuBench, 1), Rat(2, 1), Rat(0, 1) }

\* metrics on either side of every suggestion threshold
SuggestionMetricVals ==
    [none : {FALSE},
     like_rate : {Rat(0, 1), Rat(5, 100)},
     coin_rate : {Rat(0, 1), Rat(2, 100)},
     favorite_rate : {Rat(0, 1)},
     danmaku_density : {Rat(0, 1), Rat(3, 1), Rat(6, 1)},
     comment_rate : {Rat(0, 1)},
     video_count : {1},
     avg_views : {Rat(1000, 1)}]

StartupBenchVals ==
    { DefaultBenchmarks.startup_benchmarks.engagement_standards,
      CustomBenchmarks.startup_benchmarks.engagement_standards }

\* a video nobody watched, the example video of the documentation, and a
\* popular video with a dense danmaku stream
InteractionVideoVals ==
    { [view |-> 0,       like |-> 5,  coin |-> 0,  favorite |-> 0, danmaku |-> 3,      reply |-> 0],
      [view |-> 1000,    like |-> 50, coin |-> 10, favorite |-> 5, danmaku |-> 0,      reply |-> 0],
      [view |-> 1000000, like |-> 0,  coin |-> 0,  favorite |-> 0, danmaku |-> 100000, reply |-> 0] }

\* a call that returns nothing to the stability side of the caller
NoStabilityReturn ==
    /\ ret_score' = NoScore
    /\ ret_result' = NoResult
    /\ ret_advice' = NoAdvice

\* the caller passes the metrics analyze_interaction_level returned
GenerateInteractionReport ==
    /\ last_call = "analyze_interaction_level"
    /\ LET r == generate_interaction_report(benchmarks, ret_metrics)
       IN  /\ benchmarks' = r.benchmarks
           /\ raised' = r.raised
           /\ ret_report' = r.ret
    /\ last_call' = "generate_interaction_report"
    /\ call_args' = NoArgs
    /\ ret_eval' = NoEval
    /\ ret_suggestions' = <<>>
    /\ UNCHANGED starts_since_clear
    /\ UNCHANGED caller_state
    /\ UNCHANGED <<package, timestamps, videos_data, current_operation,
                   operation_start_time, performance_data, ret_score, ret_result,
                   ret_metrics, ret_advice, disk_file>>

EvaluateMetric ==
    \E user_value \in MetricVals, bench \in BenchPairs :
        LET startup_bench == bench[1]
            current_bench == bench[2]
            r == _evaluate_metric(user_value, startup_bench, current_bench)
        IN  /\ call_args' = [user_value |-> user_value, startup_bench |-> startup_bench,
                             current_bench |-> current_bench]
            /\ ret_eval' = r
            /\ raised' = r.raised
            /\ last_call' = "_evaluate_metric"
            /\ ret_suggestions' = <<>>
            /\ ret_report' = NoReport
            /\ ret_metrics' = NoneMetrics
            /\ NoStabilityReturn
            /\ UNCHANGED starts_since_clear
            /\ UNCHANGED caller_state
            /\ UNCHANGED <<package, timestamps, videos_data, current_operation,
                           operation_start_time, performance_data, disk_file,
                           benchmarks>>

EvaluateDanmaku ==
    \E density \in DensityVals, bench \in DanmakuBenchVals :
        LET r == _evaluate_danmaku(density, bench)
        IN  /\ call_args' = [density |-> density, bench |-> bench]
            /\ ret_eval' = r
            /\ raised' = r.raised
            /\ last_call' = "_evaluate_danmaku"
            /\ ret_suggestions' = <<>>
            /\ ret_report' = NoReport
            /\ ret_metrics' = NoneMetrics
            /\ NoStabilityReturn
            /\ UNCHANGED starts_since_clear
            /\ UNCHANGED caller_state
            /\ UNCHANGED <<package, timestamps, videos_data, current_operation,
                           operation_start_time, performance_data, disk_file,
                           benchmarks>>

GenerateSuggestions ==
    \E user_metrics \in SuggestionMetricVals, startup_bench \in StartupBenchVals :
        /\ call_args' = [user_metrics |-> user_metrics, startup_bench |-> startup_bench]
        /\ ret_suggestions' = _generate_suggestions(user_metrics, startup_bench)
        /\ raised' = "None"
        /\ last_call' = "_generate_suggestions"
        /\ ret_eval' = NoEval
        /\ ret_report' = NoReport
        /\ ret_metrics' = NoneMetrics
        /\ NoStabilityReturn
        /\ UNCHANGED starts_since_clear
        /\ UNCHANGED caller_state
        /\ UNCHANGED <<package, timestamps, videos_data, current_operation,
                       operation_start_time, performance_data, disk_file,
                       benchmarks>>

\* An InteractionAnalyzer of interaction_analyzer.py built on any benchmark
\* file, analysing one list of videos and calling its report helpers
InitInteraction ==
    /\ InitWith({}, InteractionVideoVals, BenchmarkFiles, {NoApi})
    /\ package = "flat"

NextInteraction ==
    \/ AnalyzeInteractionLevel
    \/ GenerateInteractionReport
    \/ EvaluateMetric
    \/ EvaluateDanmaku
    \/ GenerateSuggestions

SpecInteraction == InitInteraction /\ [][NextInteraction]_vars

\* ---------------------------------------------------------------------
\* The orchestration commands of BilibiliVideoAnalyzer (analysis.py and
\* src/core/analyzer.py).  The creator is given by what the Bilibili API
\* answers: the outcome of get_user_info and of get_videos, and for each
\* listed video the outcome of get_info; save is the outcome of writing
\* the data file.
Detail(fetch, pubdate, stat) == [fetch |-> fetch, pubdate |-> pubdate, stat |-> stat]

DetailOutcome(d) ==
    IF d.fetch = "raises" THEN Raises("ApiError")
    ELSE IF d.fetch = "nothing" THEN Returns(NoValue)
    ELSE Returns(Data(d))

\* timestamps = [v['pub_timestamp'] for v in all_videos_data] and the
\* counts of all_videos_data
PubTimestamps(fetched) == [i \in 1..Len(fetched) |-> fetched[i].pubdate]

VideoData(fetched) == [i \in 1..Len(fetched) |-> fetched[i].stat]

\* video_list[:n]
Recent(video_list, n) == SubSeq(video_list, 1, Min(n, Len(video_list)))

\* the loop over video_list of analysis.py: an exception of
\* get_video_data leaves the loop, an empty detail is skipped
RECURSIVE get_video_data_all(_, _)
get_video_data_all(m, video_list) ==
    IF video_list = <<>>
    THEN [mon |-> m, raised |-> "None", fetched |-> <<>>]
    ELSE LET r == network_request(m, "get_video_info", DetailOutcome(Head(video_list)))
         IN  IF r.raised # "None"
             THEN [mon |-> r.mon, raised |-> r.raised, fetched |-> <<>>]
             ELSE LET rest == get_video_data_all(r.mon, Tail(video_list))
                  IN  [rest EXCEPT !.fetched =
                          IF r.ret.none THEN @ ELSE <<r.ret.content>> \o @]

\* the loop over video_list of src/core/analyzer.py: get_video_info
\* returns None instead of raising
RECURSIVE get_video_info_all(_, _)
get_video_info_all(m, video_list) ==
    IF video_list = <<>>
    THEN [mon |-> m, raised |-> "None", fetched |-> <<>>]
    ELSE LET r == get_video_info(m, "get_video_info", DetailOutcome(Head(video_list)))
             rest == get_video_info_all(r.mon, Tail(video_list))
         IN  [rest EXCEPT !.fetched = IF r.ret.none THEN @ ELSE <<r.ret.content>> \o @]

calculate_publish_std(m0, ts) ==
    LET m1 == start_operation(m0, "calculate_publish_std")
    IN  IF Len(ts) < 2
        THEN [mon |-> end_operation(m1, TRUE), ret |-> [rad |-> 0, den |-> 1]]
        ELSE [mon |-> end_operation(m1, TRUE), ret |-> NpStd(NpDiff(Sorted(ts)))]

calculate_triple_rates(m0, vs) ==
    LET m1 == start_operation(m0, "calculate_triple_rates")
        triple_rates == TripleRates(vs)
    IN  [mon |-> end_operation(m1, TRUE),
         ret |-> IF triple_rates # <<>> THEN NpStd(triple_rates)
                 ELSE [rad |-> 0, den |-> 1]]

display_performance_report(m0) ==
    end_operation(start_operation(m0, "display_performance"), TRUE)

\* what a command leaves behind: whether it returned before its last
\* statement, the value it returned, the exception its handler caught, whether the data file was written and the stability
\* report printed, the value generate_interaction_report was called with
\* ("not_called", "None" or "metrics"), and the values it computed
NotRun(m) ==
    [mon |-> m, done |-> FALSE, ret |-> FALSE, caught |-> "None", file_written |-> FALSE,
     stability_printed |-> FALSE, report_called_with |-> "not_called",
     fetched |-> <<>>, stability_result |-> NoResult, advice |-> NoAdvice,
     user_metrics |-> NoneMetrics, interaction_report |-> NoReport,
     self_benchmarks |-> benchmarks]

Caught(o, m, exception) ==
    [o EXCEPT !.mon = m, !.ret = FALSE, !.caught = exception, !.done = TRUE]

MetricsArgument(user_metrics) == IF user_metrics.none THEN "None" ELSE "metrics"

\* a local variable: value is computed once and F is its scope
With(value, F(_)) == CHOOSE y \in { F(x) : x \in {value} } : TRUE

\* the part the three commands of analysis.py share: user info, video
\* list, video details (lines 35-58, 164-186, 210-233)
fetch_creator(m0, world, n) ==
    LET u == network_request(m0, "get_user_info", world.user_info)
        l == network_request(u.mon, "get_user_videos", world.videos)
        video_list == IF l.ret.none THEN <<>> ELSE world.details
        d == get_video_data_all(l.mon, Recent(video_list, n))
    IN  IF u.raised # "None" THEN Caught(NotRun(m0), u.mon, u.raised)
        ELSE IF u.ret.none THEN Caught(NotRun(m0), u.mon, "TypeError")
        ELSE IF l.raised # "None" THEN Caught(NotRun(m0), l.mon, l.raised)
        ELSE IF d.raised # "None" THEN Caught(NotRun(m0), d.mon, d.raised)
        ELSE [NotRun(m0) EXCEPT !.mon = d.mon, !.fetched = d.fetched]

export_up_data(m0, world, self_benchmarks) ==
    With(fetch_creator(m0, world, Len(world.details)), LAMBDA f :
    With(PubTimestamps(f.fetched), LAMBDA timestamps_ :
    With(VideoData(f.fetched), LAMBDA all_videos_data :
    With(calculate_publish_std(f.mon, timestamps_), LAMBDA publish_std :
    With(calculate_triple_rates(publish_std.mon, all_videos_data), LAMBDA triple_rate_std :
    With(evaluate_up_stability(triple_rate_std.mon, timestamps_, all_videos_data),
         LAMBDA stability_result :
    With(generate_stability_report(stability_result.mon, stability_result.ret),
         LAMBDA stability_report :
    With(analyze_interaction_level(all_videos_data), LAMBDA user_metrics :
    With(generate_interaction_report(self_benchmarks, user_metrics),
         LAMBDA interaction_report :
    With(file_operation(stability_report.mon, "save_data_file", world.save),
         LAMBDA filename :
    With([f EXCEPT !.mon = stability_report.mon,
                   !.stability_result = stability_result.ret,
                   !.advice = stability_report.ret,
                   !.user_metrics = user_metrics,
                   !.report_called_with = MetricsArgument(user_metrics),
                   !.self_benchmarks = interaction_report.benchmarks],
         LAMBDA analysed :
        IF f.done THEN f
        ELSE IF interaction_report.raised # "None"
        THEN Caught(analysed, stability_report.mon, interaction_report.raised)
        ELSE IF filename.raised # "None"
        THEN Caught([analysed EXCEPT !.interaction_report = interaction_report.ret],
                    filename.mon, filename.raised)
        ELSE [analysed EXCEPT !.mon = display_performance_report(filename.mon),
                              !.interaction_report = interaction_report.ret,
                              !.file_written = TRUE,
                              !.stability_printed = TRUE,
                              !.ret = TRUE])))))))))))

analyze_up_interaction(m0, world, self_benchmarks) ==
    With(fetch_creator(m0, world, 15), LAMBDA f :
    With(analyze_interaction_level(VideoData(f.fetched)), LAMBDA user_metrics :
    With(generate_interaction_report(self_benchmarks, user_metrics),
         LAMBDA interaction_report :
    With([f EXCEPT !.user_metrics = user_metrics], LAMBDA analysed :
        IF f.done THEN f
        ELSE IF user_metrics.none THEN [analysed EXCEPT !.ret = TRUE]
        ELSE IF interaction_report.raised # "None"
        THEN Caught([analysed EXCEPT !.report_called_with = "metrics",
                                     !.self_benchmarks = interaction_report.benchmarks],
                    f.mon, interaction_report.raised)
        ELSE [analysed EXCEPT !.report_called_with = "metrics",
                              !.self_benchmarks = interaction_report.benchmarks,
                              !.interaction_report = interaction_report.ret,
                              !.ret = TRUE]))))

comprehensive_analysis(m0, world, self_benchmarks) ==
    With(fetch_creator(m0, world, 20), LAMBDA f :
    With(PubTimestamps(f.fetched), LAMBDA timestamps_ :
    With(VideoData(f.fetched), LAMBDA all_videos_data :
    With(evaluate_up_stability(f.mon, timestamps_, all_videos_data),
         LAMBDA stability_result :
    With(generate_stability_report(stability_result.mon, stability_result.ret),
         LAMBDA stability_report :
    With(analyze_interaction_level(all_videos_data), LAMBDA user_metrics :
    With(generate_interaction_report(self_benchmarks, user_metrics),
         LAMBDA interaction_report :
    With([f EXCEPT !.mon = stability_report.mon,
                   !.stability_result = stability_result.ret,
                   !.advice = stability_report.ret,
                   !.user_metrics = user_metrics,
                   !.report_called_with = MetricsArgument(user_metrics),
                   !.self_benchmarks = interaction_report.benchmarks],
         LAMBDA analysed :
        IF f.done THEN f
        ELSE IF interaction_report.raised # "None"
        THEN Caught(analysed, stability_report.mon, interaction_report.raised)
        ELSE [analysed EXCEPT !.interaction_report = interaction_report.ret,
                              !.stability_printed = TRUE,
                              !.ret = TRUE]))))))))

\* BilibiliClient.get_user_info: as get_video_info, every Exception ends
\* in None
get_user_info(m0, coroutine) ==
    LET m1 == start_operation(m0, "get_user_info")
    IN  IF ~coroutine.raises /\ ~coroutine.value.none
        THEN Handed(end_operation(m1, TRUE), coroutine.value, "None")
        ELSE Handed(end_operation(m1, FALSE), NoValue, "None")

\* BilibiliClient.get_user_videos: an empty answer is an empty list
get_user_videos(m0, coroutine, vlist) ==
    LET m1 == start_operation(m0, "get_user_videos")
    IN  IF coroutine.raises
        THEN Handed(end_operation(m1, FALSE), NoValue, "None")
        ELSE Handed(end_operation(m1, TRUE),
                    Data(IF coroutine.value.none THEN <<>> ELSE vlist), "None")

\* the part the commands of src/core/analyzer.py share (lines 256-286,
\* 390-420, 444-474); a missing user or an empty list returns False
\* without an exception
CA_fetch_creator(m0, world, n) ==
    LET u == get_user_info(m0, world.user_info)
        l == get_user_videos(u.mon, world.videos, world.details)
        d == get_video_info_all(l.mon, Recent(l.ret.content, n))
    IN  IF u.ret.none THEN [NotRun(m0) EXCEPT !.mon = u.mon, !.done = TRUE]
        ELSE IF l.ret.none \/ l.ret.content = <<>>
        THEN [NotRun(m0) EXCEPT !.mon = l.mon, !.done = TRUE]
        ELSE [NotRun(m0) EXCEPT !.mon = d.mon, !.fetched = d.fetched]

\* InteractionAnalyzer of src/core/analyzer.py defines no
\* generate_interaction_report: the call raises AttributeError
CA_export_up_data(m0, world) ==
    With(CA_fetch_creator(m0, world, Len(world.details)), LAMBDA f :
    With(PubTimestamps(f.fetched), LAMBDA timestamps_ :
    With(VideoData(f.fetched), LAMBDA all_videos_data :
    With(SA_evaluate_up_stability(f.mon, timestamps_, all_videos_data),
         LAMBDA stability_result :
    With(SA_generate_stability_report(stability_result.mon, stability_result.ret),
         LAMBDA stability_report :
    With(CA_analyze_interaction_level(all_videos_data), LAMBDA user_metrics :
    With([f EXCEPT !.mon = stability_report.mon,
                   !.stability_result = stability_result.ret,
                   !.advice = stability_report.ret,
                   !.user_metrics = user_metrics],
         LAMBDA analysed :
    With([analysed EXCEPT !.file_written = TRUE, !.stability_printed = TRUE],
         LAMBDA saved :
        IF f.done THEN f
        ELSE IF world.save.raises
        THEN Caught(analysed, stability_report.mon, world.save.exception)
        ELSE IF ~user_metrics.none
        THEN Caught([saved EXCEPT !.report_called_with = "metrics"],
                    stability_report.mon, "AttributeError")
        ELSE [saved EXCEPT !.ret = TRUE]))))))))

CA_analyze_up_interaction(m0, world) ==
    With(CA_fetch_creator(m0, world, 15), LAMBDA f :
    With(CA_analyze_interaction_level(VideoData(f.fetched)), LAMBDA user_metrics :
    With([f EXCEPT !.user_metrics = user_metrics], LAMBDA analysed :
        IF f.done THEN f
        ELSE IF ~user_metrics.none
        THEN Caught([analysed EXCEPT !.report_called_with = "metrics"],
                    f.mon, "AttributeError")
        ELSE [analysed EXCEPT !.done = TRUE])))

CA_comprehensive_analysis(m0, world) ==
    With(CA_fetch_creator(m0, world, 20), LAMBDA f :
    With(PubTimestamps(f.fetched), LAMBDA timestamps_ :
    With(VideoData(f.fetched), LAMBDA all_videos_data :
    With(SA_evaluate_up_stability(f.mon, timestamps_, all_videos_data),
         LAMBDA stability_result :
    With(SA_generate_stability_report(stability_result.mon, stability_result.ret),
         LAMBDA stability_report :
    With(CA_analyze_interaction_level(all_videos_data), LAMBDA user_metrics :
    With([f EXCEPT !.mon = stability_report.mon,
                   !.stability_result = stability_result.ret,
                   !.advice = stability_report.ret,
                   !.user_metrics = user_metrics,
                   !.stability_printed = TRUE],
         LAMBDA analysed :
        IF f.done THEN f
        ELSE IF ~user_metrics.none
        THEN Caught([analysed EXCEPT !.report_called_with = "metrics"],
                    stability_report.mon, "AttributeError")
        ELSE [analysed EXCEPT !.ret = TRUE])))))))

\* The creators: the details of up to MaxVideos listed videos, each
\* fetched with data, fetched empty, or failing
DetailVals ==
    { Detail("data", 0,
             [view |-> 1000, like |-> 50, coin |-> 10, favorite |-> 5, danmaku |-> 0, reply |-> 0]),
      Detail("data", 865,
             [view |-> 100, like |-> 7, coin |-> 1, favorite |-> 2, danmaku |-> 1, reply |-> 1]),
      Detail("data", 2595,
             [view |-> 0, like |-> 5, coin |-> 0, favorite |-> 0, danmaku |-> 3, reply |-> 0]),
      Detail("nothing", 0,
             [view |-> 0, like |-> 0, coin |-> 0, favorite |-> 0, danmaku |-> 0, reply |-> 0]),
      Detail("raises", 0,
             [view |-> 0, like |-> 0, coin |-> 0, favorite |-> 0, danmaku |-> 0, reply |-> 0]) }

World(user_info, videos, details, save) ==
    [user_info |-> user_info, videos |-> videos, details |-> details, save |-> save]

\* a creator whose info and list are fetched, with a writable or a
\* read-only data directory; and the creators whose info or list is not
\* fetched
ApiWorlds ==
    { World(Returns(Data("info")), Returns(Data("vlist")), details, save) :
          details \in SeqsUpTo(DetailVals, MaxVideos),
          save \in {Returns(Data("filename")), Raises("OSError")} }
    \cup { World(user_info, Returns(Data("vlist")), <<>>, Returns(Data("filename"))) :
               user_info \in {Returns(NoValue), Raises("ApiError")} }
    \cup { World(Returns(Data("info")), videos, <<>>, Returns(Data("filename"))) :
               videos \in {Returns(NoValue), Raises("ApiError")} }

\* main.py clears the monitor before each command of analysis.py;
\* src/main.py does not
BeforeCommand == IF package = "flat" THEN clear_data(TheMonitor) ELSE TheMonitor

Ran(o) ==
    /\ Fits(BeforeCommand)
    /\ SetMonitor(o.mon)
    /\ ret_command' = [ret |-> o.ret, caught |-> o.caught,
                       file_written |-> o.file_written,
                       stability_printed |-> o.stability_printed,
                       report_called_with |-> o.report_called_with]
    /\ raised' = "None"
    /\ timestamps' = PubTimestamps(o.fetched)
    /\ videos_data' = VideoData(o.fetched)
    /\ ret_result' = o.stability_result
    /\ ret_advice' = o.advice
    /\ ret_metrics' = o.user_metrics
    /\ ret_report' = o.interaction_report
    /\ benchmarks' = o.self_benchmarks
    /\ ret_score' = NoScore
    /\ ret_eval' = NoEval
    /\ ret_suggestions' = <<>>
    /\ call_args' = NoArgs
    /\ ret_value' = NoValue
    /\ UNCHANGED <<package, disk_file, requests, api>>

ExportUpData ==
    \E o \in { IF package = "flat" THEN export_up_data(BeforeCommand, api, benchmarks)
                ELSE CA_export_up_data(BeforeCommand, api) } :
        /\ last_call' = "export_up_data"
        /\ Ran(o)

AnalyzeUpInteraction ==
    \E o \in { IF package = "flat" THEN analyze_up_interaction(BeforeCommand, api, benchmarks)
                ELSE CA_analyze_up_interaction(BeforeCommand, api) } :
        /\ last_call' = "analyze_up_interaction"
        /\ Ran(o)

ComprehensiveAnalysis ==
    \E o \in { IF package = "flat" THEN comprehensive_analysis(BeforeCommand, api, benchmarks)
                ELSE CA_comprehensive_analysis(BeforeCommand, api) } :
        /\ last_call' = "comprehensive_analysis"
        /\ Ran(o)

NextCommands ==
    \/ ExportUpData
    \/ AnalyzeUpInteraction
    \/ ComprehensiveAnalysis

\* the caller names any creator; the repository ships no benchmark file
SpecCommands == InitWith({}, {}, {NoFile}, ApiWorlds) /\ [][NextCommands]_vars

\* ---------------------------------------------------------------------
\* The copies of the stability scoring on one list of video records:
\* run.py assembles the records itself, the analyzers are given the
\* publish timestamps and the counts of the same records
AllVideosData(ts, vs) ==
    [i \in 1..Len(vs) |->
        [pub_timestamp |-> ts[i], view |-> vs[i].view, like |-> vs[i].like,
         coin |-> vs[i].coin, favorite |-> vs[i].favorite]]

AnalyzeStability ==
    /\ last_call' = "analyze_stability"
    /\ ret_command' = analyze_stability(AllVideosData(timestamps, videos_data))
    /\ UNCHANGED <<package, timestamps, videos_data, current_operation,
                   operation_start_time, performance_data, starts_since_clear,
                   ret_score, ret_result, ret_metrics, ret_advice, requests,
                   ret_value, api>>
    /\ UNCHANGED interaction_state

InitCopies ==
    /\ Init
    /\ Len(timestamps) = Len(videos_data)

NextCopies ==
    \/ EvaluateUpStability
    \/ AnalyzeStability
    \/ ClearData

SpecCopies == InitCopies /\ [][NextCopies]_vars

----------------------------------------------------------------------------
\* Properties

FreshMonitor == Monitor("None", "None", <<>>)

\* the value each stability function returns on the caller's arguments
TimeReturned ==
    IF package = "flat" THEN calculate_time_stability(FreshMonitor, timestamps).ret
    ELSE SA_calculate_time_stability(FreshMonitor, timestamps).ret

QualityReturned ==
    IF package = "flat" THEN calculate_quality_stability(FreshMonitor, videos_data).ret
    ELSE SA_calculate_quality_stability(FreshMonitor, videos_data).ret

\* a result of evaluate_up_stability is in hand
HasResult == last_call \in {"evaluate_up_stability", "generate_stability_report"}

\* the tier of a value in thousandths under the inclusive lower bounds
TierOfThousandths(x) ==
    CASE x >= 800 -> "Excellent"
      [] x >= 600 /\ x < 800 -> "Good"
      [] x >= 400 /\ x < 600 -> "Fair"
      [] x < 400 -> "NeedsImprovement"

\* C1: the overall_stability evaluate_up_stability returns lies in [0, 1]
\* and equals round(time * 0.6 + quality * 0.4, 3), time and quality being
\* the values calculate_time_stability and calculate_quality_stability
\* return on the same arguments.
C1_OverallIsWeightedSum ==
    HasResult =>
        /\ ret_result.overall_stability >= 0
        /\ ret_result.overall_stability <= 1000
        /\ ret_result.overall_stability =
               Round3(TimeReturned * 6 + QualityReturned * 4, 10 * Scale)

C1_Witness ==
    /\ last_call = "evaluate_up_stability"
    /\ package = "flat"
    /\ ret_result.time_stability \notin {500, 1000}
    /\ ret_result.quality_stability \notin {500, 1000}
    /\ ret_result.time_stability # ret_result.quality_stability

\* C2: in every result of evaluate_up_stability the stability_level is the
\* tier of the result's own (rounded) overall_stability, and the advice
\* generate_stability_report picks names the same tier as the level.
C2_LevelIsTierOfResult ==
    /\ HasResult =>
           ret_result.stability_level = TierOfThousandths(ret_result.overall_stability)
    /\ last_call = "generate_stability_report" =>
           ret_advice.advice = ret_advice.level

\* C3: for fewer than 2 timestamps calculate_time_stability returns exactly 0.5.
C3_FewTimestampsNeutral ==
    (last_call = "calculate_time_stability" /\ Len(timestamps) < 2)
        => ret_score * 2 = Scale

C3_Witness ==
    /\ last_call = "calculate_time_stability"
    /\ package = "flat"
    /\ Len(timestamps) = 1
    /\ ret_score * 2 = Scale

AllIdentical(ts) == \A i, j \in 1..Len(ts) : ts[i] = ts[j]

\* C4: for 2 or more identical timestamps calculate_time_stability returns 1.0.
C4_IdenticalTimestampsOne ==
    (last_call = "calculate_time_stability" /\ Len(timestamps) >= 2
         /\ AllIdentical(timestamps))
        => ret_score = Scale

C4_Witness ==
    /\ last_call = "calculate_time_stability"
    /\ package = "flat"
    /\ Len(timestamps) >= 2
    /\ AllIdentical(timestamps)
    /\ timestamps[1] = 0
    /\ ret_score = Scale

\* C5: the values calculate_time_stability and calculate_quality_stability
\* return, and the time_stability and quality_stability fields of the
\* result, lie in [0, 1].
C5_ScoresInUnitInterval ==
    /\ last_call \in {"calculate_time_stability", "calculate_quality_stability"}
           => (ret_score >= 0 /\ ret_score <= Scale)
    /\ HasResult =>
           /\ ret_result.time_stability >= 0 /\ ret_result.time_stability <= 1000
           /\ ret_result.quality_stability >= 0 /\ ret_result.quality_stability <= 1000

\* a relative_std above 1 (score below 0.5) has been scored
C5_Witness ==
    /\ last_call = "calculate_quality_stability"
    /\ ret_score > 0
    /\ ret_score * 2 < Scale

AllZeroViews(vs) == \A i \in 1..Len(vs) : vs[i].view = 0

\* C6: calculate_quality_stability returns exactly 0.5 for fewer than 2
\* videos and for 2 or more videos that all have view == 0; every rate it
\* forms has a non-zero denominator.
C6_NoViewsNeutral ==
    /\ (last_call = "calculate_quality_stability"
            /\ (Len(videos_data) < 2 \/ AllZeroViews(videos_data)))
           => ret_score * 2 = Scale
    /\ \A i \in 1..Len(TripleRates(videos_data)) : TripleRates(videos_data)[i].den > 0

C6_Witness ==
    /\ last_call = "calculate_quality_stability"
    /\ package = "flat"
    /\ Len(videos_data) >= 2
    /\ AllZeroViews(videos_data)
    /\ ret_score * 2 = Scale

\* some video has views and every video with views has no like, coin or favorite
ZeroMeanRate(vs) ==
    /\ \E i \in 1..Len(vs) : vs[i].view > 0
    /\ \A i \in 1..Len(vs) :
           vs[i].view > 0 => vs[i].like + vs[i].coin + vs[i].favorite = 0

\* C7: when some video has views and the mean triple rate is 0,
\* calculate_quality_stability returns 1 / (1 + 1.0) = 0.5.
C7_ZeroMeanSentinel ==
    (last_call = "calculate_quality_stability" /\ ZeroMeanRate(videos_data))
        => ret_score * 2 = Scale

C7_Witness ==
    /\ last_call = "calculate_quality_stability"
    /\ package = "flat"
    /\ Len(videos_data) >= 2
    /\ ZeroMeanRate(videos_data)
    /\ ret_score * 2 = Scale

\* C8: evaluate_up_stability returns a well-formed result on degenerate
\* input: on two empty lists 0.5 / 0.5 / 0.5, the third tier and
\* video_count 0; on any lists video_count is the length of the video list.
C8_DegenerateInputResult ==
    HasResult =>
        /\ ret_result.video_count = Len(videos_data)
        /\ ret_result.stability_level \in
               {"Excellent", "Good", "Fair", "NeedsImprovement"}
        /\ (timestamps = <<>> /\ videos_data = <<>>) =>
               ret_result = [time_stability |-> 500, quality_stability |-> 500,
                             overall_stability |-> 500, stability_level |-> "Fair",
                             video_count |-> 0]

C8_Witness ==
    /\ last_call = "evaluate_up_stability"
    /\ package = "flat"
    /\ timestamps = <<>>
    /\ videos_data = <<>>
    /\ ret_result.overall_stability = 500

\* C9: analyze_interaction_level returns None for an empty list and, for a
\* non-empty list, a metrics record whose video_count is the list's length.
C9_NoneOnlyForEmpty ==
    last_call = "analyze_interaction_level" =>
        /\ ret_metrics.none <=> (videos_data = <<>>)
        /\ ~ret_metrics.none => ret_metrics.video_count = Len(videos_data)

C9_Witness ==
    /\ last_call = "analyze_interaction_level"
    /\ package = "flat"
    /\ Len(videos_data) >= 2
    /\ \E i \in 1..Len(videos_data) : videos_data[i].view = 0
    /\ ~ret_metrics.none
    /\ ret_metrics.video_count = Len(videos_data)

Watched(vs) == SelectSeq(vs, LAMBDA v : v.view > 0)

RECURSIVE RatioSum(_, _, _)
RatioSum(vs, key, factor) ==
    IF vs = <<>> THEN Rat(0, 1)
    ELSE RatAdd(Rat(Head(vs)[key] * factor, Head(vs).view),
                RatioSum(Tail(vs), key, factor))

\* m is the mean of key / view * factor over the videos with views, 0 if none
IsWatchedMean(m, key, factor) ==
    LET w == Watched(videos_data)
        total == RatioSum(w, key, factor)
    IN  IF w = <<>> THEN m.num = 0
        ELSE m.num * total.den * Len(w) = total.num * m.den

SpecExample ==
    <<[view |-> 1000, like |-> 50, coin |-> 10, favorite |-> 5, danmaku |-> 0, reply |-> 0]>>

\* C10: like_rate, coin_rate, favorite_rate and comment_rate are the means
\* of metric / view over the videos with view > 0 only, danmaku_density the
\* mean of danmaku / view * 60 over the same videos, and all five are 0 when
\* no video has views; on the one-video example the rates are 0.05, 0.01,
\* 0.005 and the density 0.
C10_RatesAreWatchedMeans ==
    (last_call = "analyze_interaction_level" /\ ~ret_metrics.none) =>
        /\ IsWatchedMean(ret_metrics.like_rate, "like", 1)
        /\ IsWatchedMean(ret_metrics.coin_rate, "coin", 1)
        /\ IsWatchedMean(ret_metrics.favorite_rate, "favorite", 1)
        /\ IsWatchedMean(ret_metrics.comment_rate, "reply", 1)
        /\ IsWatchedMean(ret_metrics.danmaku_density, "danmaku", 60)
        /\ videos_data = SpecExample =>
               /\ RatEq(ret_metrics.like_rate, Rat(5, 100))
               /\ RatEq(ret_metrics.coin_rate, Rat(1, 100))
               /\ RatEq(ret_metrics.favorite_rate, Rat(5, 1000))
               /\ RatEq(ret_metrics.danmaku_density, Rat(0, 1))

C10_Witness ==
    /\ last_call = "analyze_interaction_level"
    /\ package = "flat"
    /\ \E i \in 1..Len(videos_data) : videos_data[i].view = 0
    /\ \E i \in 1..Len(videos_data) : videos_data[i].view > 0
    /\ ret_metrics.like_rate.num > 0
    /\ ret_metrics.danmaku_density.num > 0

\* sum of view over every video of the list
ViewSum(vs) == Sum([i \in 1..Len(vs) |-> vs[i].view])

\* C11: avg_views is the mean of view over all the videos of the input list,
\* those without views included: it is averaged over video_count videos even
\* when the rates are averaged over fewer.
C11_AvgViewsOverAllVideos ==
    (last_call = "analyze_interaction_level" /\ ~ret_metrics.none) =>
        /\ ret_metrics.video_count = Len(videos_data)
        /\ ret_metrics.avg_views.num * ret_metrics.video_count
               = ViewSum(videos_data) * ret_metrics.avg_views.den

\* a list with a video without views, so that the rates are averaged over
\* fewer videos than avg_views
C11_Witness ==
    /\ last_call = "analyze_interaction_level"
    /\ ~ret_metrics.none
    /\ Len(Watched(videos_data)) \in 1..(ret_metrics.video_count - 1)
    /\ ret_metrics.avg_views.num > 0

\* a < b on rationals
RatLT(a, b) == ~RatGE(a, b)

\* the report was printed
Printed == last_call = "generate_interaction_report" /\ raised = "None"

\* C12: _evaluate_metric returns score 1.0 and the top tier for every
\* user_value >= current_bench, whatever startup_bench is, also when
\* startup_bench > current_bench as in the default coin-rate benchmarks;
\* the coin line of a printed report follows the same rule.
C12_TopTierAtCurrentBench ==
    /\ (last_call = "_evaluate_metric"
            /\ RatGE(call_args.user_value, call_args.current_bench)) =>
           /\ raised = "None"
           /\ RatEq(ret_eval.score, Rat(1, 1))
           /\ ret_eval.emoji = "trophy"
    /\ (Printed /\ RatGE(ret_metrics.coin_rate,
                         benchmarks.current_benchmarks.engagement_standards.coin_rate_benchmark)) =>
           /\ RatEq(ret_report.coin_score.score, Rat(1, 1))
           /\ ret_report.coin_score.emoji = "trophy"

\* a value between the default coin-rate benchmarks (0.0075 <= 0.0090 < 0.0101)
C12_Witness ==
    /\ last_call = "_evaluate_metric"
    /\ RatGE(call_args.user_value, call_args.current_bench)
    /\ RatLT(call_args.user_value, call_args.startup_bench)
    /\ ret_eval.emoji = "trophy"

\* C13: _evaluate_metric returns the middle tier exactly when
\* startup_bench <= user_value < current_bench; there current_bench -
\* startup_bench is positive, nothing is raised, the score is
\* (user_value - startup_bench) / (current_bench - startup_bench) and lies
\* in [0, 1).
C13_MidTierInterpolates ==
    last_call = "_evaluate_metric" =>
        LET u == call_args.user_value
            s == call_args.startup_bench
            c == call_args.current_bench
            mid == RatGE(u, s) /\ RatLT(u, c)
        IN  /\ (ret_eval.emoji = "star") <=> mid
            /\ mid =>
                   /\ raised = "None"
                   /\ RatSub(c, s).num > 0
                   /\ RatEq(RatMul(ret_eval.score, RatSub(c, s)), RatSub(u, s))
                   /\ ret_eval.score.num >= 0
                   /\ ret_eval.score.num < ret_eval.score.den

\* 0.0437 between the like-rate benchmarks 0.0436 and 0.0439: score 1/3
C13_Witness ==
    /\ last_call = "_evaluate_metric"
    /\ ret_eval.emoji = "star"
    /\ RatEq(ret_eval.score, Rat(1, 3))

C15_DanmakuScore ==
    (last_call = "_evaluate_danmaku"
         /\ call_args.density.num >= 0 /\ call_args.bench.num > 0) =>
        LET d == call_args.density
            b == call_args.bench
        IN  /\ raised = "None"
            /\ IF RatGE(d, RatMul(Rat(2, 1), b))
               THEN RatEq(ret_eval.score, Rat(1, 1)) /\ ret_eval.emoji = "trophy"
               ELSE IF RatGE(d, b)
               THEN RatEq(ret_eval.score,
                          RatAdd(Rat(1, 2), RatMul(RatDiv(RatSub(d, b), b), Rat(1, 2))))
               ELSE RatEq(RatMul(ret_eval.score, b), d)

\* density 6 against the bench 5 of the report: score 0.6
C15_Witness ==
    /\ last_call = "_evaluate_danmaku"
    /\ call_args.density = Rat(6, 1)
    /\ call_args.bench = Rat(DanmakuBench, 1)
    /\ RatEq(ret_eval.score, Rat(6, 10))

\* the suggestions whose condition holds for the arguments, in the order
\* like-rate gap, coin-rate gap, danmaku-density gap
Fired(user_metrics, startup_bench) ==
    SelectSeq(<<"GuideLikes", "RaiseCoinValue", "AddTopics">>,
              LAMBDA x :
                  \/ x = "GuideLikes"
                       /\ RatLT(user_metrics.like_rate, startup_bench.like_rate_benchmark)
                  \/ x = "RaiseCoinValue"
                       /\ RatLT(user_metrics.coin_rate, startup_bench.coin_rate_benchmark)
                  \/ x = "AddTopics"
                       /\ RatLT(user_metrics.danmaku_density, Rat(3, 1)))

\* suggestions is fired, filled up to three with the generic suggestions
\* in their order
IsFiredThenGeneric(suggestions, fired) ==
    /\ Len(suggestions) = 3
    /\ \A i \in 1..3 :
           suggestions[i] = IF i <= Len(fired) THEN fired[i]
                            ELSE GenericSuggestions[i - Len(fired)]

\* C16: _generate_suggestions returns exactly 3 suggestions: those whose
\* condition fired, in the order like-rate gap, coin-rate gap,
\* danmaku-density gap, then the generic ones in their order, cut to 3; a
\* generic one appears only when fewer than 3 conditions fired.  The
\* printed report lists the same three.
C16_ThreeSuggestions ==
    /\ last_call = "_generate_suggestions" =>
           IsFiredThenGeneric(ret_suggestions,
                              Fired(call_args.user_metrics, call_args.startup_bench))
    /\ Printed =>
           IsFiredThenGeneric(ret_report.suggestions,
                              Fired(ret_metrics,
                                    benchmarks.startup_benchmarks.engagement_standards))

\* two conditions fired and one generic suggestion fills the list
C16_Witness ==
    /\ last_call = "_generate_suggestions"
    /\ Len(Fired(call_args.user_metrics, call_args.startup_bench)) = 2
    /\ ret_suggestions[3] = "KeepUpdating"

\* the file gives no benchmark table
LoadFails(f) ==
    \/ ~f.exists
    \/ ~f.readable
    \/ ~f.json
    \/ ~HasBenchmarkKeys(f.value)

\* C17: whenever the benchmark file fails to load (missing, unreadable,
\* malformed, or parsed but without the benchmark keys) the analyzer holds
\* exactly the default table and no KeyError leaves
\* generate_interaction_report.
C17_DefaultTableOnLoadFailure ==
    LoadFails(disk_file) =>
        /\ benchmarks = DefaultBenchmarks
        /\ last_call = "generate_interaction_report" => raised # "KeyError"

\* C18: after construction no call of analyze_interaction_level,
\* generate_interaction_report, _evaluate_metric, _evaluate_danmaku or
\* _generate_suggestions changes self.benchmarks.
C18_BenchmarksNeverChange == [][benchmarks' = benchmarks]_vars

\* a report printed from a table that is not the default one
C18_Witness ==
    /\ Printed
    /\ benchmarks = CustomBenchmarks
    /\ benchmarks # DefaultBenchmarks

\* monitors in other states than the caller's: fresh, in the middle of an
\* operation, and holding the record of a failed operation
OtherMonitors ==
    { FreshMonitor,
      Monitor("network_request", "set", <<>>),
      Monitor("None", "None", <<[operation |-> "network_request", success |-> FALSE]>>) }

\* the value each scoring function returns on the caller's arguments when
\* it reports to the monitor m
TimeScoreWith(m, ts) ==
    IF package = "flat" THEN calculate_time_stability(m, ts).ret
    ELSE SA_calculate_time_stability(m, ts).ret

QualityScoreWith(m) ==
    IF package = "flat" THEN calculate_quality_stability(m, videos_data).ret
    ELSE SA_calculate_quality_stability(m, videos_data).ret

ResultWith(m) ==
    IF package = "flat" THEN evaluate_up_stability(m, timestamps, videos_data).ret
    ELSE SA_evaluate_up_stability(m, timestamps, videos_data).ret

Reorderings(ts) ==
    { [i \in 1..Len(ts) |-> ts[f[i]]] :
          f \in { g \in [1..Len(ts) -> 1..Len(ts)] :
                      \A i, j \in 1..Len(ts) : g[i] = g[j] => i = j } }

\* C20: calculate_time_stability gives the same score for every
\* permutation of the same timestamps.
C20_OrderDoesNotMatter ==
    last_call = "calculate_time_stability" =>
        \A p \in Reorderings(timestamps) : TimeScoreWith(FreshMonitor, p) = ret_score

\* three different timestamps supplied out of order, with uneven gaps
C20_Witness ==
    /\ last_call = "calculate_time_stability"
    /\ Len(timestamps) = 3
    /\ timestamps[1] > timestamps[2]
    /\ timestamps[2] < timestamps[3]
    /\ timestamps[1] # timestamps[3]
    /\ ret_score # Half
    /\ ret_score # One

\* the score is in [0, 1] and its bar has 20 cells, floor(score * 20) filled
UnitScoreAndBar(e) ==
    /\ e.raised = "None"
    /\ e.score.num >= 0
    /\ e.score.num <= e.score.den
    /\ e.bar.filled + e.bar.empty = 20
    /\ e.bar.filled = (20 * e.score.num) \div e.score.den

\* C21: for user_value >= 0 and benchmarks >= 0 in either order, equal or
\* not, _evaluate_metric divides by no zero and its score lies in [0, 1];
\* likewise _evaluate_danmaku for density >= 0 and bench >= 0; the bar of
\* the score has exactly 20 cells, floor(score * 20) of them filled, on
\* direct calls and on every line of a printed report.
C21_ScoreAndBarInRange ==
    /\ (last_call = "_evaluate_metric"
            /\ call_args.user_value.num >= 0
            /\ call_args.startup_bench.num >= 0
            /\ call_args.current_bench.num >= 0) => UnitScoreAndBar(ret_eval)
    /\ (last_call = "_evaluate_danmaku"
            /\ call_args.density.num >= 0
            /\ call_args.bench.num >= 0) => UnitScoreAndBar(ret_eval)
    /\ Printed =>
           /\ UnitScoreAndBar(ret_report.like_score)
           /\ UnitScoreAndBar(ret_report.coin_score)
           /\ UnitScoreAndBar(ret_report.danmaku_score)

\* a value strictly inside (0, 1) between benchmarks given in the order
\* startup > current, and a bar that is neither empty nor full
C21_Witness ==
    /\ last_call = "_evaluate_metric"
    /\ RatLT(call_args.current_bench, call_args.startup_bench)
    /\ ret_eval.bar.filled \in 1..19
    /\ ret_eval.bar.empty = 20 - ret_eval.bar.filled

\* C29: for fixed benchmarks the score of _evaluate_metric never decreases
\* when user_value grows, and the score of _evaluate_danmaku never
\* decreases when density grows.
C29_ScoreMonotone ==
    /\ (last_call = "_evaluate_metric" /\ raised = "None") =>
           \A larger \in MetricVals :
               RatGE(larger, call_args.user_value) =>
                   LET e == _evaluate_metric(larger, call_args.startup_bench,
                                             call_args.current_bench)
                   IN  e.raised = "None" /\ RatGE(e.score, ret_eval.score)
    /\ (last_call = "_evaluate_danmaku" /\ raised = "None") =>
           \A larger \in DensityVals :
               RatGE(larger, call_args.density) =>
                   LET e == _evaluate_danmaku(larger, call_args.bench)
                   IN  e.raised = "None" /\ RatGE(e.score, ret_eval.score)

\* the names of the records that a step appended to performance_data
GainedOperations ==
    { performance_data'[i].operation :
          i \in (Len(performance_data) + 1)..Len(performance_data') }

\* C24: a call of evaluate_up_stability with the monitor attached adds one
\* record for each of evaluate_up_stability, calculate_time_stability and
\* calculate_quality_stability to performance_data.
C24_OneRecordPerOperation ==
    [][EvaluateUpStability =>
           /\ Len(performance_data') = Len(performance_data) + 3
           /\ GainedOperations = {"evaluate_up_stability", "calculate_time_stability",
                                  "calculate_quality_stability"}]_vars

\* C28: calculate_quality_stability returns the neutral score 0.5 whenever
\* fewer than 2 of the videos have views, that is whenever fewer than 2
\* triple rates can be computed.
C28_NeutralBelowTwoRates ==
    (last_call = "calculate_quality_stability" /\ Len(Watched(videos_data)) < 2) =>
        ret_score = Half

\* C25: end_operation with no operation in progress changes nothing; the
\* records never outnumber the start_operation calls made since the last
\* clear_data; current_operation is None right after every end_operation
C25_RecordsBoundedByStarts ==
    /\ [][(EndOperation /\ current_operation = "None") =>
             UNCHANGED <<current_operation, operation_start_time, performance_data>>]_vars
    /\ [](Len(performance_data) <= starts_since_clear)
    /\ [](last_call = "end_operation" => current_operation = "None")

Finished == { r \in RequestIds : requests[r].status \in {"returned", "raised"} }

\* C26: network_request calls in flight at the same time each get their own
\* record: once they have all finished, performance_data holds one record
\* per call, with the name and the outcome of that call
C26_OwnRecordPerRequest ==
    (Finished = RequestIds /\ \E r \in RequestIds : requests[r].overlapped) =>
        /\ Len(performance_data) = Cardinality(RequestIds)
        /\ \E own \in [RequestIds -> DOMAIN performance_data] :
               /\ \A r, q \in RequestIds : own[r] = own[q] => r = q
               /\ \A r \in RequestIds :
                      performance_data[own[r]] =
                          [operation |-> requests[r].operation_name,
                           success |-> requests[r].status = "returned"]

\* the user info and the video list of the creator are fetched and the
\* data directory is writable
CreatorFetched ==
    /\ ~api.user_info.raises /\ ~api.user_info.value.none
    /\ ~api.videos.raises
    /\ ~api.save.raises

\* C22: when the creator yields no usable video record (empty list, or
\* every detail fetch returns nothing), export_up_data and
\* comprehensive_analysis of analysis.py never call
\* generate_interaction_report with a null metrics value, print the
\* neutral stability report and return True
C22_NullMetricsIsInsufficientData ==
    (/\ package = "flat"
     /\ last_call \in {"export_up_data", "comprehensive_analysis"}
     /\ CreatorFetched
     /\ \A i \in DOMAIN api.details : api.details[i].fetch = "nothing") =>
        /\ ret_command.report_called_with # "None"
        /\ ret_command.stability_printed
        /\ ret_command.ret = TRUE

\* C27: in src/core/analyzer.py every orchestration command returns True
\* when the user info, the video list and at least one video detail with
\* view > 0 are fetched; export_up_data never returns False after it has
\* written the data file
C27_CommandsSucceed ==
    /\ (/\ package = "src"
        /\ last_call \in {"export_up_data", "analyze_up_interaction",
                          "comprehensive_analysis"}
        /\ CreatorFetched
        /\ \E i \in DOMAIN api.details :
               api.details[i].fetch = "data" /\ api.details[i].stat.view > 0) =>
           ret_command.ret = TRUE
    /\ (package = "src" /\ last_call = "export_up_data" /\ ret_command.file_written) =>
           ret_command.ret = TRUE

\* C30: on a list of at least 2 video records the copies of the stability
\* scoring (run.py, core_services.py, bilibili_analyzer.py,
\* src/core/analyzer.py) compute the same time stability, quality
\* stability, overall stability and tier
C30_CopiesAgree ==
    (Len(videos_data) >= 2 /\ ret_command # NoCommand /\ ret_result # NoResult) =>
        /\ \A time_stability \in
                  { calculate_time_stability(FreshMonitor, timestamps).ret,
                    BA_calculate_time_stability(FreshMonitor, timestamps).ret,
                    SA_calculate_time_stability(FreshMonitor, timestamps).ret } :
               time_stability = ret_command.time_stability
        /\ \A quality_stability \in
                  { calculate_quality_stability(FreshMonitor, videos_data).ret,
                    BA_calculate_quality_stability(FreshMonitor, videos_data).ret,
                    SA_calculate_quality_stability(FreshMonitor, videos_data).ret } :
               quality_stability = ret_command.quality_stability
        /\ \A result \in
                  { ret_result,
                    evaluate_up_stability(FreshMonitor, timestamps, videos_data).ret,
                    BA_evaluate_up_stability(FreshMonitor, timestamps, videos_data).ret,
                    SA_evaluate_up_stability(FreshMonitor, timestamps, videos_data).ret } :
               /\ result.stability_level = ret_command.level
               /\ result.overall_stability =
                      Round3(ret_command.overall_stability, 10 * Scale)
               /\ result.time_stability = Round3(ret_command.time_stability, Scale)
               /\ result.quality_stability = Round3(ret_command.quality_stability, Scale)

\* both the analyzers and run.py have scored three records, one of them
\* never viewed, published at irregular intervals
C30_Witness ==
    /\ Len(videos_data) = 3
    /\ Len(Watched(videos_data)) = 2
    /\ ret_command # NoCommand
    /\ ret_result # NoResult
    /\ ret_command.time_stability < One
    /\ ret_command.quality_stability < One
    /\ ret_result.stability_level = ret_command.level

====
